---- MODULE Spec2Model ----
(***************************************************************************)
(* Natural-deduction proof checker (phases 1, 4 and 5 of the repository).  *)
(*                                                                         *)
(* Formula symbols are written in ASCII, one token per symbol:             *)
(*   "~" negation, "&" conjunction, "|" disjunction, ">" implication,      *)
(*   "=" biconditional, "_" bottom, "^" top, "(" and ")", letters p q r s. *)
(***************************************************************************)
EXTENDS Integers, Sequences, FiniteSets, TLC

(***************************************************************************)
(* LogicSymbol and the formula alphabet                                    *)
(***************************************************************************)
NOT == "~"
AND == "&"
OR == "|"
IMPLIES == ">"
IFF == "="
CONTRADICTION == "_"
TOP == "^"
LPAREN == "("
RPAREN == ")"
SPACE == " "

Letters == {"p", "q", "r", "s"}

isalpha(c) == c \in Letters

(***************************************************************************)
(* Node: value, left, right; an absent child is None                       *)
(***************************************************************************)
None == [value |-> "None"]

Node(val) == [value |-> val, left |-> None, right |-> None]

WithLeft(n, l) == [value |-> n.value, left |-> l, right |-> n.right]

WithRight(n, r) == [value |-> n.value, left |-> n.left, right |-> r]

Last(s) == s[Len(s)]

Front(s) == SubSeq(s, 1, Len(s) - 1)

(***************************************************************************)
(* Phase1.tokenize, is_operator, presedence, parse_tree                    *)
(***************************************************************************)
RECURSIVE tokenize(_)
tokenize(expr) ==
  IF expr = <<>> THEN <<>>
  ELSE IF Head(expr) = SPACE THEN tokenize(Tail(expr))
       ELSE <<Head(expr)>> \o tokenize(Tail(expr))

is_operator(c) == c \in {NOT, AND, OR, IMPLIES, IFF}

presedence(op) ==
  CASE op = NOT -> 1
    [] op = AND -> 2
    [] op = OR -> 3
    [] op = IMPLIES -> 4
    [] op = IFF -> 5
    [] OTHER -> 100

\* The two stacks of parse_tree; error is set where the Python code raises
\* IndexError (a pop or an index on an empty list).
ParseState(ops, props, err) == [operators |-> ops, proposition |-> props, error |-> err]

Raised(st) == ParseState(st.operators, st.proposition, TRUE)

pop_op(st) ==
  IF st.error THEN st
  ELSE IF st.operators = <<>> THEN Raised(st)
  ELSE LET op == Last(st.operators)
           ops == Front(st.operators)
           props == st.proposition
       IN IF op = NOT
          THEN IF Len(props) < 1 THEN Raised(st)
               ELSE ParseState(ops,
                               Append(Front(props), WithRight(Node(op), Last(props))),
                               FALSE)
          ELSE IF Len(props) < 2 THEN Raised(st)
               ELSE ParseState(ops,
                               Append(SubSeq(props, 1, Len(props) - 2),
                                      [value |-> op,
                                       left |-> props[Len(props) - 1],
                                       right |-> props[Len(props)]]),
                               FALSE)

\* while operators[-1] != '(': pop_op()
RECURSIVE ReduceToParen(_)
ReduceToParen(st) ==
  IF st.error THEN st
  ELSE IF st.operators = <<>> THEN Raised(st)
  ELSE IF Last(st.operators) = LPAREN THEN st
  ELSE ReduceToParen(pop_op(st))

\* while operators and operators[-1] != '(' and presedence(top) <= presedence(t)
RECURSIVE ReduceWhile(_, _)
ReduceWhile(st, t) ==
  IF st.error THEN st
  ELSE IF st.operators /= <<>> /\ Last(st.operators) /= LPAREN
          /\ presedence(Last(st.operators)) <= presedence(t)
       THEN ReduceWhile(pop_op(st), t)
       ELSE st

\* while operators: pop_op()
RECURSIVE ReduceAll(_)
ReduceAll(st) ==
  IF st.error THEN st
  ELSE IF st.operators /= <<>> THEN ReduceAll(pop_op(st))
  ELSE st

ParseToken(st, t) ==
  IF st.error THEN st
  ELSE IF t = LPAREN THEN ParseState(Append(st.operators, t), st.proposition, FALSE)
  ELSE IF t = RPAREN
       THEN LET r == ReduceToParen(st)
            IN IF r.error THEN r
               ELSE ParseState(Front(r.operators), r.proposition, FALSE)
  ELSE IF is_operator(t)
       THEN LET r == ReduceWhile(st, t)
            IN IF r.error THEN r
               ELSE ParseState(Append(r.operators, t), r.proposition, FALSE)
  ELSE IF isalpha(t) THEN ParseState(st.operators, Append(st.proposition, Node(t)), FALSE)
  ELSE st

RECURSIVE ParseTokens(_, _)
ParseTokens(tokens, st) ==
  IF tokens = <<>> THEN st
  ELSE ParseTokens(Tail(tokens), ParseToken(st, Head(tokens)))

\* parse_tree(expr): ok = FALSE where the Python code raises
parse_tree(expr) ==
  LET st == ReduceAll(ParseTokens(tokenize(expr), ParseState(<<>>, <<>>, FALSE)))
  IN IF st.error \/ st.proposition = <<>>
     THEN [ok |-> FALSE, tree |-> None]
     ELSE [ok |-> TRUE, tree |-> Last(st.proposition)]

(***************************************************************************)
(* Structural equality: the three comparisons the verifier uses.  A call   *)
(* with a top-level None raises AttributeError in the Python code; every   *)
(* caller turns that into the same rejection as an unequal pair, so the    *)
(* operators answer FALSE there.                                           *)
(***************************************************************************)
\* phase4 LogicRule._nodes_equal: children compared in order
RECURSIVE nodes_equal_phase4(_, _)
nodes_equal_phase4(node1, node2) ==
  IF node1 = None \/ node2 = None THEN FALSE
  ELSE IF node1.value /= node2.value THEN FALSE
  ELSE LET left_equal ==
             IF node1.left = None /\ node2.left = None THEN TRUE
             ELSE IF node1.left /= None /\ node2.left /= None
                  THEN nodes_equal_phase4(node1.left, node2.left)
                  ELSE FALSE
           right_equal ==
             IF node1.right = None /\ node2.right = None THEN TRUE
             ELSE IF node1.right /= None /\ node2.right /= None
                  THEN nodes_equal_phase4(node1.right, node2.right)
                  ELSE FALSE
       IN left_equal /\ right_equal

\* phase5 LogicRule._nodes_equal: commutative for "|" and "&"
RECURSIVE nodes_equal_phase5(_, _)
nodes_equal_phase5(node1, node2) ==
  IF node1 = None \/ node2 = None THEN FALSE
  ELSE IF node1.value /= node2.value THEN FALSE
  ELSE LET eq(n1, n2) ==
             IF n1 = None /\ n2 = None THEN TRUE
             ELSE IF n1 = None \/ n2 = None THEN FALSE
             ELSE nodes_equal_phase5(n1, n2)
       IN IF node1.value \in {OR, AND}
          THEN \/ eq(node1.left, node2.left) /\ eq(node1.right, node2.right)
               \/ eq(node1.left, node2.right) /\ eq(node1.right, node2.left)
          ELSE eq(node1.left, node2.left) /\ eq(node1.right, node2.right)

\* Phase5.nodes_equal: total on None, children compared in order
RECURSIVE nodes_equal(_, _)
nodes_equal(node1, node2) ==
  IF node1 = None /\ node2 = None THEN TRUE
  ELSE IF node1 = None \/ node2 = None THEN FALSE
  ELSE IF node1.value /= node2.value THEN FALSE
  ELSE nodes_equal(node1.left, node2.left) /\ nodes_equal(node1.right, node2.right)

(***************************************************************************)
(* The rule catalog.  Each rule takes its input nodes and answers          *)
(* [ok, node, exception]: ok = FALSE where _validate_input or apply raises *)
(* the exception named.                                                    *)
(***************************************************************************)
Returns(n) == [ok |-> TRUE, node |-> n, exception |-> ""]

LogicRuleError == [ok |-> FALSE, node |-> None, exception |-> "LogicRuleError"]

\* variant of LogicSymbol: the enum has the member OR
LogicSymbolWithOr == {"AND", "IMPLIES", "NOT", "CONTRADICTION", "OR"}

\* The enum LogicSymbol that phase5 imports from phase4: it has no member OR,
\* so evaluating LogicSymbol.OR raises AttributeError.
LogicSymbol == {"AND", "IMPLIES", "NOT", "CONTRADICTION"}

AttributeError == [ok |-> FALSE, node |-> None, exception |-> "AttributeError"]

\* phase4 rules

\* variant of AndIntro: the two inputs are attached in the other order
AndIntroSwapped(nodes) ==
  IF Len(nodes) /= 2 THEN LogicRuleError
  ELSE Returns([value |-> AND, left |-> nodes[2], right |-> nodes[1]])

AndIntro(nodes) ==
  IF Len(nodes) /= 2 THEN LogicRuleError
  ELSE Returns([value |-> AND, left |-> nodes[1], right |-> nodes[2]])

AndElimLeft(nodes) ==
  IF Len(nodes) /= 1 THEN LogicRuleError
  ELSE LET conjunction == nodes[1]
       IN IF conjunction.value /= AND \/ conjunction.left = None THEN LogicRuleError
          ELSE Returns(conjunction.left)

AndElimRight(nodes) ==
  IF Len(nodes) /= 1 THEN LogicRuleError
  ELSE LET conjunction == nodes[1]
       IN IF conjunction.value /= AND \/ conjunction.right = None THEN LogicRuleError
          ELSE Returns(conjunction.right)

\* variant of ImpElim: the implication may be either of the two inputs
ImpElimEitherOrder(nodes) ==
  IF Len(nodes) /= 2 THEN LogicRuleError
  ELSE IF nodes[1].value = IMPLIES /\ nodes_equal_phase4(nodes[1].left, nodes[2])
  THEN Returns(nodes[1].right)
  ELSE IF nodes[2].value = IMPLIES /\ nodes_equal_phase4(nodes[2].left, nodes[1])
  THEN Returns(nodes[2].right)
  ELSE LogicRuleError

ImpElim(nodes) ==
  IF Len(nodes) /= 2 THEN LogicRuleError
  ELSE LET implication == nodes[1]
           antecedent == nodes[2]
       IN IF implication.value /= IMPLIES \/ implication.left = None
             \/ implication.right = None
          THEN LogicRuleError
          ELSE IF ~nodes_equal_phase4(implication.left, antecedent) THEN LogicRuleError
          ELSE Returns(implication.right)

NegElim(nodes) ==
  IF Len(nodes) /= 2 THEN LogicRuleError
  ELSE LET node1 == nodes[1]
           node2 == nodes[2]
       IN IF node1.value /= NOT /\ node2.value = NOT
          THEN IF node2.left = None \/ ~nodes_equal_phase4(node1, node2.left)
               THEN LogicRuleError
               ELSE Returns(Node(CONTRADICTION))
          ELSE IF node1.value = NOT /\ node2.value /= NOT
          THEN IF node1.left = None \/ ~nodes_equal_phase4(node2, node1.left)
               THEN LogicRuleError
               ELSE Returns(Node(CONTRADICTION))
          ELSE LogicRuleError

DoubleNegElim(nodes) ==
  IF Len(nodes) /= 1 THEN LogicRuleError
  ELSE LET double_neg_node == nodes[1]
       IN IF double_neg_node.value /= NOT \/ double_neg_node.left = None
          THEN LogicRuleError
          ELSE LET inner_node == double_neg_node.left
               IN IF inner_node.value /= NOT \/ inner_node.left = None
                  THEN LogicRuleError
                  ELSE Returns(inner_node.left)

ModusTollens(nodes) ==
  IF Len(nodes) /= 2 THEN LogicRuleError
  ELSE LET implication == nodes[1]
           negated_consequent == nodes[2]
       IN IF implication.value /= IMPLIES \/ implication.left = None
             \/ implication.right = None
          THEN LogicRuleError
          ELSE IF negated_consequent.value /= NOT \/ negated_consequent.left = None
          THEN LogicRuleError
          ELSE IF ~nodes_equal_phase4(negated_consequent.left, implication.right)
          THEN LogicRuleError
          ELSE Returns(WithLeft(Node(NOT), implication.left))

DoubleNegIntro(nodes) ==
  IF Len(nodes) /= 1 THEN LogicRuleError
  ELSE Returns(WithLeft(Node(NOT), WithLeft(Node(NOT), nodes[1])))

\* phase5 rules
OrIntroLeft(nodes) ==
  IF Len(nodes) /= 2 THEN LogicRuleError
  ELSE LET premise == nodes[1]
           target_disjunction == nodes[2]
       IN IF "OR" \notin LogicSymbol THEN AttributeError
          ELSE IF target_disjunction.value /= OR THEN LogicRuleError
          ELSE IF target_disjunction.left /= None
                  /\ nodes_equal_phase5(premise, target_disjunction.left)
          THEN Returns(target_disjunction)
          ELSE LogicRuleError

OrIntroRight(nodes) ==
  IF Len(nodes) /= 2 THEN LogicRuleError
  ELSE LET premise == nodes[1]
           target_disjunction == nodes[2]
       IN IF "OR" \notin LogicSymbol THEN AttributeError
          ELSE IF target_disjunction.value /= OR THEN LogicRuleError
          ELSE IF target_disjunction.right /= None
                  /\ nodes_equal_phase5(premise, target_disjunction.right)
          THEN Returns(target_disjunction)
          ELSE LogicRuleError

OrElim(nodes) ==
  IF Len(nodes) /= 3 THEN LogicRuleError
  ELSE LET or_node == nodes[1]
           c1 == nodes[2]
           c2 == nodes[3]
       IN IF "OR" \notin LogicSymbol THEN AttributeError
          ELSE IF or_node.value /= OR THEN LogicRuleError
          ELSE IF ~nodes_equal_phase5(c1, c2) THEN LogicRuleError
          ELSE Returns(c1)

\* variant of ImpIntro: the conclusion is made the antecedent
ImpIntroSwapped(nodes) ==
  IF Len(nodes) /= 2 THEN LogicRuleError
  ELSE Returns([value |-> IMPLIES, left |-> nodes[2], right |-> nodes[1]])

ImpIntro(nodes) ==
  IF Len(nodes) /= 2 THEN LogicRuleError
  ELSE Returns([value |-> IMPLIES, left |-> nodes[1], right |-> nodes[2]])

FalseElim(nodes) ==
  IF Len(nodes) /= 2 THEN LogicRuleError
  ELSE LET contradiction == nodes[1]
           target == nodes[2]
       IN IF contradiction.value /= CONTRADICTION THEN LogicRuleError
          ELSE Returns(target)

PBC(nodes) ==
  IF Len(nodes) /= 2 THEN LogicRuleError
  ELSE LET false_assumption == nodes[1]
           contradiction == nodes[2]
       IN IF false_assumption.value /= NOT THEN LogicRuleError
          ELSE IF contradiction.value /= CONTRADICTION THEN LogicRuleError
          ELSE Returns(false_assumption.right)

NegIntro(nodes) ==
  IF Len(nodes) /= 2 THEN LogicRuleError
  ELSE LET assumption == nodes[1]
           contradiction == nodes[2]
       IN IF contradiction.value /= CONTRADICTION THEN LogicRuleError
          ELSE Returns(WithRight(Node(NOT), assumption))

LEM(nodes) ==
  IF Len(nodes) /= 1 THEN LogicRuleError
  ELSE LET a == nodes[1]
       IN IF "OR" \notin LogicSymbol THEN AttributeError
          ELSE Returns([value |-> OR, left |-> a, right |-> WithRight(Node(NOT), a)])

CopyRule(nodes) ==
  IF Len(nodes) /= 1 THEN LogicRuleError
  ELSE Returns(nodes[1])

Assumption(nodes) == LogicRuleError

(***************************************************************************)
(* Proof text.  A text is a sequence of raw lines; a raw line records what *)
(* NaturalDeductionParser.parse reads of it:                               *)
(*   lead      number of leading spaces                                    *)
(*   marker    the stripped line when it is a scope marker, else ""        *)
(*   nparts    number of non-empty fields separated by four spaces         *)
(*             (0 for a blank line)                                        *)
(*   number    characters of the first field                               *)
(*   formula   characters of the second field                              *)
(*   rule_name the third field up to its first comma                       *)
(*   refs      the comma-separated items after the rule name, each the     *)
(*             sequence of its "-"-separated pieces (character sequences)  *)
(***************************************************************************)
Digits == {"0", "1", "2", "3", "4", "5", "6", "7", "8", "9"}

DigitVal(c) ==
  CASE c = "0" -> 0 [] c = "1" -> 1 [] c = "2" -> 2 [] c = "3" -> 3 [] c = "4" -> 4
    [] c = "5" -> 5 [] c = "6" -> 6 [] c = "7" -> 7 [] c = "8" -> 8 [] c = "9" -> 9

RECURSIVE DecimalValue(_)
DecimalValue(chars) ==
  IF chars = <<>> THEN 0
  ELSE 10 * DecimalValue(Front(chars)) + DigitVal(Last(chars))

\* int(text): ok = FALSE where Python raises ValueError
int(chars) ==
  IF chars /= <<>> /\ \A i \in 1..Len(chars) : chars[i] \in Digits
  THEN [ok |-> TRUE, val |-> DecimalValue(chars)]
  ELSE [ok |-> FALSE, val |-> 0]

NoLineNumber == -1

BEGIN_SCOPE == "BeginScope"
END_SCOPE == "EndScope"

LogicLine(line_number, formula, rule_name, refs, indent) ==
  [line_number |-> line_number, formula |-> formula, rule_name |-> rule_name,
   refs |-> refs, indent |-> indent]

\* a parsed reference: a bare int, or a tuple (start, end)
IntRef(n) == [tuple |-> FALSE, start |-> n, end |-> n]

TupleRef(a, b) == [tuple |-> TRUE, start |-> a, end |-> b]

isinstance_int(ref) == ~ref.tuple

isinstance_tuple(ref) == ref.tuple

\* variant of ParseRef: a piece that is no integer is read as 0
ParseRefLenient(ref) ==
  LET val(piece) == IF int(piece).ok THEN int(piece).val ELSE 0
  IN IF Len(ref) >= 2
     THEN [ok |-> Len(ref) = 2, ref |-> TupleRef(val(ref[1]), val(ref[2]))]
     ELSE [ok |-> Len(ref) = 1, ref |-> IntRef(val(ref[1]))]

\* one reference of the rule clause (lines 260-264)
ParseRef(ref) ==
  IF Len(ref) >= 2
  THEN IF Len(ref) = 2 /\ int(ref[1]).ok /\ int(ref[2]).ok
       THEN [ok |-> TRUE, ref |-> TupleRef(int(ref[1]).val, int(ref[2]).val)]
       ELSE [ok |-> FALSE, ref |-> IntRef(0)]
  ELSE IF Len(ref) = 1 /\ int(ref[1]).ok
       THEN [ok |-> TRUE, ref |-> IntRef(int(ref[1]).val)]
       ELSE [ok |-> FALSE, ref |-> IntRef(0)]

ParseRefs(refs) ==
  [ok |-> \A i \in 1..Len(refs) : ParseRef(refs[i]).ok,
   refs |-> [i \in 1..Len(refs) |-> ParseRef(refs[i]).ref]]

IsBlank(raw) == raw.marker = "" /\ raw.nparts = 0

\* One line of the loop of parse (lines 230-272).  stripped: the line is the
\* first non-blank line of the text, whose leading spaces input_data.strip()
\* removed.  status is "skip", "ok" or "error" (ValueError).
ParseLine(raw, stripped) ==
  LET indent == IF stripped THEN 0 ELSE raw.lead \div 2
      number == int(raw.number)
      node == parse_tree(raw.formula)
      processed == ParseRefs(raw.refs)
      nothing == LogicLine(NoLineNumber, None, "", <<>>, 0)
  IN IF IsBlank(raw) THEN [status |-> "skip", line |-> nothing]
     ELSE IF raw.marker \in {BEGIN_SCOPE, END_SCOPE}
     THEN [status |-> "ok", line |-> LogicLine(NoLineNumber, None, raw.marker, <<>>, indent)]
     ELSE IF raw.nparts < 3 THEN [status |-> "error", line |-> nothing]
     ELSE IF ~number.ok \/ ~node.ok \/ ~processed.ok
     THEN [status |-> "error", line |-> nothing]
     ELSE [status |-> "ok",
           line |-> LogicLine(number.val, node.tree, raw.rule_name, processed.refs, indent)]

FirstNonBlank(txt) ==
  IF \E i \in 1..Len(txt) : ~IsBlank(txt[i])
  THEN CHOOSE i \in 1..Len(txt) : ~IsBlank(txt[i]) /\ \A j \in 1..(i - 1) : IsBlank(txt[j])
  ELSE 0

\* NaturalDeductionParser.parse: the parsed lines, or the position of the
\* first line that raises
RECURSIVE ParseFrom(_, _, _)
ParseFrom(txt, i, acc) ==
  IF i > Len(txt) THEN [ok |-> TRUE, lines |-> acc, bad |-> 0]
  ELSE LET r == ParseLine(txt[i], i = FirstNonBlank(txt))
       IN IF r.status = "error" THEN [ok |-> FALSE, lines |-> <<>>, bad |-> i]
          ELSE IF r.status = "skip" THEN ParseFrom(txt, i + 1, acc)
          ELSE ParseFrom(txt, i + 1, Append(acc, r.line))

parse(input_data) == ParseFrom(input_data, 1, <<>>)

(***************************************************************************)
(* Phase5: rule lookup and the check of one rule line (lines 370-685)      *)
(***************************************************************************)
Phase4Rules == {"&i", "&e1", "&e2", ">e", "~e", "~~e", "MT", "~~i"}

Phase5Rules == {"Assumption", "~i", "Copy", "|i1", "|i2", "|e", ">i", "_e", "PBC", "LEM"}

\* rule_name_to_class(name) is a class (not None)
rule_name_to_class(name) == name \in Phase4Rules \cup Phase5Rules

\* rule_class(nodes=..., rule_name=...).apply()
ApplyRule(name, nodes) ==
  CASE name = "&i" -> AndIntro(nodes)
    [] name = "&e1" -> AndElimLeft(nodes)
    [] name = "&e2" -> AndElimRight(nodes)
    [] name = ">e" -> ImpElim(nodes)
    [] name = "~e" -> NegElim(nodes)
    [] name = "~~e" -> DoubleNegElim(nodes)
    [] name = "MT" -> ModusTollens(nodes)
    [] name = "~~i" -> DoubleNegIntro(nodes)
    [] name = "~i" -> NegIntro(nodes)
    [] name = "Copy" -> CopyRule(nodes)
    [] name = "|i1" -> OrIntroLeft(nodes)
    [] name = "|i2" -> OrIntroRight(nodes)
    [] name = "|e" -> OrElim(nodes)
    [] name = ">i" -> ImpIntro(nodes)
    [] name = "_e" -> FalseElim(nodes)
    [] name = "PBC" -> PBC(nodes)
    [] name = "LEM" -> LEM(nodes)
    [] OTHER -> Assumption(nodes)

\* variant of RuleNodesEqual: only the root values are compared
RuleNodesEqualRoot(name, node1, node2) ==
  node1 /= None /\ node2 /= None /\ node1.value = node2.value

\* rule._nodes_equal: the method of the class the rule object belongs to
RuleNodesEqual(name, node1, node2) ==
  IF name \in Phase4Rules THEN nodes_equal_phase4(node1, node2)
  ELSE nodes_equal_phase5(node1, node2)

\* What the body of the try block does with a line: "accept" (lines 679-680
\* are reached), "return" (an explicit return of Invalid Deduction), or
\* "raise" with the exception raised.
\* applied: rule.apply() returned, and expected is what it returned.
Accept(expected) ==
  [kind |-> "accept", applied |-> TRUE, expected |-> expected, exception |-> ""]

Reject == [kind |-> "return", applied |-> FALSE, expected |-> None, exception |-> ""]

Mismatch(expected) ==
  [kind |-> "return", applied |-> TRUE, expected |-> expected, exception |-> ""]

Raise(exc) == [kind |-> "raise", applied |-> FALSE, expected |-> None, exception |-> exc]

\* lines 674-680: apply the rule and compare with the declared formula
Conclude(line, nodes) ==
  LET applied == ApplyRule(line.rule_name, nodes)
  IN IF ~applied.ok THEN Raise(applied.exception)
     ELSE IF ~RuleNodesEqual(line.rule_name, applied.node, line.formula)
     THEN Mismatch(applied.node)
     ELSE Accept(applied.node)

\* for i in range(start, end + 1): if i not in valid_lines
RangeValid(start, end, valid) == \A i \in start..end : i \in valid

CheckLEM(line) ==
  LET f == line.formula
  IN IF Len(line.refs) /= 0 THEN Reject
     ELSE IF "OR" \notin LogicSymbol THEN Raise("AttributeError")
     ELSE IF f.value /= OR THEN Reject
     ELSE IF f.right /= None /\ f.right.value = NOT /\ f.right.right /= None
             /\ nodes_equal(f.left, f.right.right)
     THEN Conclude(line, <<f.left>>)
     ELSE IF f.left /= None /\ f.left.value = NOT /\ f.left.right /= None
             /\ nodes_equal(f.left.right, f.right)
     THEN Conclude(line, <<f.right>>)
     ELSE Reject

\* variant of CheckImpIntro: the rule of the start line is not looked at
CheckImpIntroAnyStart(line, lmap, valid) ==
  IF Len(line.refs) /= 1 \/ ~isinstance_tuple(line.refs[1]) THEN Reject
  ELSE LET start == line.refs[1].start
           end == line.refs[1].end
       IN IF start \notin DOMAIN lmap \/ end \notin DOMAIN lmap THEN Reject
          ELSE IF ~RangeValid(start, end, valid) THEN Reject
          ELSE Conclude(line, <<lmap[start].formula, lmap[end].formula>>)

CheckImpIntro(line, lmap, valid) ==
  IF Len(line.refs) /= 1 \/ ~isinstance_tuple(line.refs[1]) THEN Reject
  ELSE LET start == line.refs[1].start
           end == line.refs[1].end
       IN IF start \notin DOMAIN lmap \/ end \notin DOMAIN lmap THEN Reject
          ELSE IF lmap[start].rule_name /= "Assumption" THEN Reject
          ELSE IF ~RangeValid(start, end, valid) THEN Reject
          ELSE Conclude(line, <<lmap[start].formula, lmap[end].formula>>)

\* the branches of ~i and PBC have the same text
CheckContradictionBlock(line, lmap) ==
  IF Len(line.refs) /= 1 \/ ~isinstance_tuple(line.refs[1]) THEN Reject
  ELSE LET start == line.refs[1].start
           end == line.refs[1].end
       IN IF start \notin DOMAIN lmap THEN Reject
          ELSE IF lmap[start].rule_name /= "Assumption" THEN Reject
          ELSE IF end \notin DOMAIN lmap THEN Reject
          ELSE Conclude(line, <<lmap[start].formula, lmap[end].formula>>)

CheckFalseElim(line, lmap, valid) ==
  IF Len(line.refs) /= 1 THEN Reject
  ELSE IF ~isinstance_int(line.refs[1]) THEN Reject
  ELSE IF line.refs[1].start \notin valid THEN Reject
  ELSE Conclude(line, <<lmap[line.refs[1].start].formula, line.formula>>)

\* the branches of |i1 and |i2 have the same text
CheckOrIntro(line, lmap, valid) ==
  IF Len(line.refs) /= 1 \/ ~isinstance_int(line.refs[1]) THEN Reject
  ELSE IF line.refs[1].start \notin valid THEN Reject
  ELSE Conclude(line, <<lmap[line.refs[1].start].formula, line.formula>>)

CheckOrElim(line, lmap, valid) ==
  IF Len(line.refs) /= 3 THEN Reject
  \* start1, end1 = line.refs[1] unpacks an int
  ELSE IF ~isinstance_tuple(line.refs[2]) \/ ~isinstance_tuple(line.refs[3])
  THEN Raise("TypeError")
  ELSE LET start1 == line.refs[2].start
           end1 == line.refs[2].end
           start2 == line.refs[3].start
           end2 == line.refs[3].end
           d == line.refs[1]
       IN IF ~(start1 < end1 /\ end1 < start2 /\ start2 < end2 /\ end2 < line.line_number)
          THEN Reject
          ELSE IF ~isinstance_int(d) THEN Reject
          ELSE IF d.start \notin valid THEN Reject
          ELSE IF {start1, end1, start2, end2} \cap DOMAIN lmap /= {start1, end1, start2, end2}
          THEN Reject
          ELSE IF lmap[start1].rule_name /= "Assumption"
                  \/ lmap[start2].rule_name /= "Assumption"
          THEN Reject
          ELSE LET disjunction_node == lmap[d.start].formula
                   assumption1 == lmap[start1].formula
                   assumption2 == lmap[start2].formula
               IN IF "OR" \notin LogicSymbol THEN Raise("AttributeError")
                  ELSE IF disjunction_node.value /= OR THEN Reject
                  ELSE IF ~(\/ /\ nodes_equal(assumption1, disjunction_node.left)
                               /\ nodes_equal(assumption2, disjunction_node.right)
                            \/ /\ nodes_equal(assumption1, disjunction_node.right)
                               /\ nodes_equal(assumption2, disjunction_node.left))
                  THEN Reject
                  ELSE IF lmap[start2].indent > lmap[start1].indent THEN Reject
                  ELSE Conclude(line, <<disjunction_node, lmap[end1].formula,
                                        lmap[end2].formula>>)

\* the branches of &i, >e, ~e and MT have the same text
CheckTwoRefs(line, lmap, valid) ==
  IF Len(line.refs) /= 2 THEN Reject
  ELSE IF \E i \in 1..2 : ~(isinstance_int(line.refs[i]) /\ line.refs[i].start \in valid)
  THEN Reject
  ELSE Conclude(line, <<lmap[line.refs[1].start].formula, lmap[line.refs[2].start].formula>>)

\* variant of CheckOneRef: the reference is looked up in line_map without the
\* test against valid_lines
CheckOneRefUnchecked(line, lmap, valid) ==
  IF Len(line.refs) /= 1 \/ ~isinstance_int(line.refs[1]) THEN Reject
  ELSE IF line.refs[1].start \notin DOMAIN lmap THEN Raise("KeyError")
  ELSE Conclude(line, <<lmap[line.refs[1].start].formula>>)

\* the branches of &e1, &e2, ~~e, ~~i and Copy have the same text
CheckOneRef(line, lmap, valid) ==
  IF Len(line.refs) /= 1 \/ ~isinstance_int(line.refs[1]) THEN Reject
  ELSE IF line.refs[1].start \notin valid THEN Reject
  ELSE Conclude(line, <<lmap[line.refs[1].start].formula>>)

\* the if/elif chain of the try block (lines 375-673)
CheckLine(line, lmap, valid) ==
  CASE line.rule_name = "LEM" -> CheckLEM(line)
    [] line.rule_name = ">i" -> CheckImpIntro(line, lmap, valid)
    [] line.rule_name \in {"~i", "PBC"} -> CheckContradictionBlock(line, lmap)
    [] line.rule_name = "_e" -> CheckFalseElim(line, lmap, valid)
    [] line.rule_name \in {"|i1", "|i2"} -> CheckOrIntro(line, lmap, valid)
    [] line.rule_name = "|e" -> CheckOrElim(line, lmap, valid)
    [] line.rule_name \in {"&i", ">e", "~e", "MT"} -> CheckTwoRefs(line, lmap, valid)
    [] line.rule_name \in {"&e1", "&e2", "~~e", "~~i", "Copy"} -> CheckOneRef(line, lmap, valid)
    [] OTHER -> Reject

(***************************************************************************)
(* Result strings of Phase5.process.  n is the line number of "Invalid     *)
(* Deduction at Line <n>", the position in the text of the line named by   *)
(* "Invalid input format: <detail>", and NoLineNumber otherwise.           *)
(***************************************************************************)
VALID == "Valid Deduction"
INVALID_AT == "Invalid Deduction at Line"
UNMATCHED == "Invalid Deduction: unmatched EndScope"
INVALID_FORMAT == "Invalid input format:"
UNCAUGHT == "uncaught exception"

Result(msg, n) == [msg |-> msg, n |-> n]

NoResult == Result("", NoLineNumber)

\* variant of InvalidDeduction: the indent of the line is reported
InvalidDeductionIndent(line) == Result(INVALID_AT, line.indent)

\* return f"Invalid Deduction at Line {line.line_number}"
InvalidDeduction(line) == Result(INVALID_AT, line.line_number)

\* variant of ExceptClause: only LogicRuleError is caught
ExceptClauseNarrow(exc, line) ==
  IF exc = "LogicRuleError" THEN Result(INVALID_AT, line.line_number)
  ELSE Result(UNCAUGHT, NoLineNumber)

\* except LogicRuleError / except Exception (lines 682-685): both handlers
\* return the same string, and Exception catches whatever is raised
ExceptClause(exc, line) == InvalidDeduction(line)

\* except Exception around parser.parse (lines 336-337)
ParseExceptClause(bad) == Result(INVALID_FORMAT, bad)

(***************************************************************************)
(* Raw lines used to build the texts                                       *)
(***************************************************************************)
MarkerLine(lead, marker) ==
  [lead |-> lead, marker |-> marker, nparts |-> 1, number |-> <<>>, formula |-> <<>>,
   rule_name |-> "", refs |-> <<>>]

ContentLine(lead, number, formula, rule_name, refs) ==
  [lead |-> lead, marker |-> "", nparts |-> 3, number |-> number, formula |-> formula,
   rule_name |-> rule_name, refs |-> refs]

\* a line with fewer than three fields
ShortLine(lead, nparts, number, formula) ==
  [lead |-> lead, marker |-> "", nparts |-> nparts, number |-> number, formula |-> formula,
   rule_name |-> "", refs |-> <<>>]

BlankLine == ShortLine(0, 0, <<>>, <<>>)

\* a bare reference "n" and a block reference "a-b" as written in the text
Bare(n) == <<<<n>>>>

Block(a, b) == <<<<a>>, <<b>>>>

(***************************************************************************)
(* State of one run of Phase5.process                                      *)
(***************************************************************************)
VARIABLES
  input_data,            \* the proof text
  pc,                    \* "parse", "prepare", "loop", "done"
  lines,                 \* parser.parse(input_data)
  line_map,              \* line number -> LogicLine
  valid_lines,
  scope_stack,
  scope_assumptions,     \* scope level -> line number of its last Assumption
  current_scope_level,
  pos,                   \* position in lines of the next line of the for loop
  expected_node,         \* result of the latest rule.apply(), None before
  exception,             \* the exception caught most recently, "" if none
  result                 \* the returned string, NoResult while running

vars == <<input_data, pc, lines, line_map, valid_lines, scope_stack, scope_assumptions,
          current_scope_level, pos, expected_node, exception, result>>

\* {line.line_number: line for line in lines if line.line_number is not None}:
\* a later line replaces an earlier one with the same number
LineMap(ls) ==
  LET nums == {ls[i].line_number : i \in {j \in 1..Len(ls) : ls[j].line_number /= NoLineNumber}}
      last(n) == CHOOSE i \in 1..Len(ls) :
                   /\ ls[i].line_number = n
                   /\ \A j \in (i + 1)..Len(ls) : ls[j].line_number /= n
  IN [n \in nums |-> ls[last(n)]]

\* variant of Premises: no line is valid before the loop starts
PremisesNotPreloaded(lmap) == {}

Premises(lmap) == {n \in DOMAIN lmap : lmap[n].rule_name = "Premise"}

\* lines 333-337
Parse ==
  /\ pc = "parse"
  /\ LET parsed == parse(input_data)
     IN IF parsed.ok
        THEN /\ lines' = parsed.lines
             /\ pc' = "prepare"
             /\ UNCHANGED <<result, exception>>
        ELSE /\ result' = ParseExceptClause(parsed.bad)
             /\ exception' = "ValueError"
             /\ pc' = "done"
             /\ UNCHANGED lines
  /\ UNCHANGED <<input_data, line_map, valid_lines, scope_stack, scope_assumptions,
                 current_scope_level, pos, expected_node>>

\* lines 339-349
Prepare ==
  /\ pc = "prepare"
  /\ line_map' = LineMap(lines)
  /\ valid_lines' = Premises(LineMap(lines))
  /\ scope_stack' = <<Premises(LineMap(lines))>>
  /\ scope_assumptions' = <<>>
  /\ current_scope_level' = 0
  /\ pos' = 1
  /\ pc' = "loop"
  /\ UNCHANGED <<input_data, lines, expected_node, exception, result>>

\* variant of OnlyBaseLevel: the test is len(scope_stack) < 1
OnlyBaseLevelOffByOne(stack) == Len(stack) < 1

\* if len(scope_stack) <= 1 (line 357)
OnlyBaseLevel(stack) == Len(stack) <= 1

AddToTop(stack, n) == [stack EXCEPT ![Len(stack)] = @ \cup {n}]

Return(r) ==
  /\ result' = r
  /\ pc' = "done"

Continue ==
  /\ pos' = pos + 1
  /\ UNCHANGED <<pc, result>>

\* variant of ScopeMarker: EndScope leaves current_scope_level as it is
ScopeMarkerLevelKept ==
  /\ pc = "loop" /\ pos <= Len(lines)
  /\ lines[pos].line_number = NoLineNumber
  /\ IF lines[pos].rule_name = BEGIN_SCOPE
     THEN /\ current_scope_level' = current_scope_level + 1
          /\ scope_stack' = Append(scope_stack, {})
          /\ Continue
     ELSE IF OnlyBaseLevel(scope_stack)
          THEN /\ Return(Result(UNMATCHED, NoLineNumber))
               /\ UNCHANGED <<current_scope_level, scope_stack, pos>>
          ELSE /\ scope_stack' = Front(scope_stack)
               /\ UNCHANGED current_scope_level
               /\ Continue
  /\ UNCHANGED <<input_data, lines, line_map, valid_lines, scope_assumptions,
                 expected_node, exception>>

\* variant of ScopeMarker: EndScope takes the lines of the ended scope out of
\* valid_lines
ScopeMarkerForgets ==
  /\ pc = "loop" /\ pos <= Len(lines)
  /\ lines[pos].line_number = NoLineNumber
  /\ IF lines[pos].rule_name = BEGIN_SCOPE
     THEN /\ current_scope_level' = current_scope_level + 1
          /\ scope_stack' = Append(scope_stack, {})
          /\ UNCHANGED valid_lines
          /\ Continue
     ELSE IF OnlyBaseLevel(scope_stack)
          THEN /\ Return(Result(UNMATCHED, NoLineNumber))
               /\ UNCHANGED <<current_scope_level, scope_stack, pos, valid_lines>>
          ELSE /\ scope_stack' = Front(scope_stack)
               /\ valid_lines' = valid_lines \ Last(scope_stack)
               /\ current_scope_level' = current_scope_level - 1
               /\ Continue
  /\ UNCHANGED <<input_data, lines, line_map, scope_assumptions, expected_node, exception>>

\* lines 352-361
ScopeMarker ==
  /\ pc = "loop" /\ pos <= Len(lines)
  /\ lines[pos].line_number = NoLineNumber
  /\ IF lines[pos].rule_name = BEGIN_SCOPE
     THEN /\ current_scope_level' = current_scope_level + 1
          /\ scope_stack' = Append(scope_stack, {})
          /\ Continue
     ELSE IF OnlyBaseLevel(scope_stack)
          THEN /\ Return(Result(UNMATCHED, NoLineNumber))
               /\ UNCHANGED <<current_scope_level, scope_stack, pos>>
          ELSE /\ scope_stack' = Front(scope_stack)
               /\ current_scope_level' = current_scope_level - 1
               /\ Continue
  /\ UNCHANGED <<input_data, lines, line_map, valid_lines, scope_assumptions,
                 expected_node, exception>>

\* variant of IntroLine: an Assumption met at the base level is rejected
IntroLineInScopeOnly ==
  /\ pc = "loop" /\ pos <= Len(lines)
  /\ lines[pos].line_number /= NoLineNumber
  /\ lines[pos].rule_name \in {"Premise", "Assumption"}
  /\ IF lines[pos].rule_name = "Assumption" /\ Len(scope_stack) > 1
     THEN /\ scope_stack' = AddToTop(scope_stack, lines[pos].line_number)
          /\ valid_lines' = valid_lines \cup {lines[pos].line_number}
          /\ UNCHANGED scope_assumptions
          /\ Continue
     ELSE IF lines[pos].rule_name = "Assumption"
     THEN /\ Return(InvalidDeduction(lines[pos]))
          /\ UNCHANGED <<scope_stack, valid_lines, scope_assumptions, pos>>
     ELSE /\ UNCHANGED <<scope_stack, valid_lines, scope_assumptions>>
          /\ Continue
  /\ UNCHANGED <<input_data, lines, line_map, current_scope_level, expected_node, exception>>

\* lines 363-368
IntroLine ==
  /\ pc = "loop" /\ pos <= Len(lines)
  /\ lines[pos].line_number /= NoLineNumber
  /\ lines[pos].rule_name \in {"Premise", "Assumption"}
  /\ IF lines[pos].rule_name = "Assumption"
     THEN /\ scope_stack' = AddToTop(scope_stack, lines[pos].line_number)
          /\ valid_lines' = valid_lines \cup {lines[pos].line_number}
          /\ scope_assumptions' =
               [l \in DOMAIN scope_assumptions \cup {current_scope_level} |->
                  IF l = current_scope_level THEN lines[pos].line_number
                  ELSE scope_assumptions[l]]
     ELSE UNCHANGED <<scope_stack, valid_lines, scope_assumptions>>
  /\ Continue
  /\ UNCHANGED <<input_data, lines, line_map, current_scope_level, expected_node, exception>>

\* variant of RuleLine: a line whose rule name is not known is taken as it stands
RuleLineUnknownPasses ==
  /\ pc = "loop" /\ pos <= Len(lines)
  /\ lines[pos].line_number /= NoLineNumber
  /\ lines[pos].rule_name \notin {"Premise", "Assumption"}
  /\ LET line == lines[pos]
         outcome == CheckLine(line, line_map, valid_lines)
     IN IF ~rule_name_to_class(line.rule_name)
        THEN /\ scope_stack' = AddToTop(scope_stack, line.line_number)
             /\ valid_lines' = valid_lines \cup {line.line_number}
             /\ Continue
             /\ UNCHANGED <<expected_node, exception>>
        ELSE IF outcome.kind = "accept"
        THEN /\ scope_stack' = AddToTop(scope_stack, line.line_number)
             /\ valid_lines' = valid_lines \cup {line.line_number}
             /\ expected_node' = outcome.expected
             /\ Continue
             /\ UNCHANGED exception
        ELSE IF outcome.kind = "return"
        THEN /\ Return(InvalidDeduction(line))
             /\ expected_node' = IF outcome.applied THEN outcome.expected ELSE expected_node
             /\ UNCHANGED <<scope_stack, valid_lines, exception, pos>>
        ELSE /\ Return(ExceptClause(outcome.exception, line))
             /\ exception' = outcome.exception
             /\ UNCHANGED <<scope_stack, valid_lines, expected_node, pos>>
  /\ UNCHANGED <<input_data, lines, line_map, scope_assumptions, current_scope_level>>

\* lines 370-685
RuleLine ==
  /\ pc = "loop" /\ pos <= Len(lines)
  /\ lines[pos].line_number /= NoLineNumber
  /\ lines[pos].rule_name \notin {"Premise", "Assumption"}
  /\ LET line == lines[pos]
         outcome == CheckLine(line, line_map, valid_lines)
     IN IF ~rule_name_to_class(line.rule_name)
        THEN /\ Return(InvalidDeduction(line))
             /\ UNCHANGED <<scope_stack, valid_lines, expected_node, exception, pos>>
        ELSE IF outcome.kind = "accept"
        THEN /\ scope_stack' = AddToTop(scope_stack, line.line_number)
             /\ valid_lines' = valid_lines \cup {line.line_number}
             /\ expected_node' = outcome.expected
             /\ Continue
             /\ UNCHANGED exception
        ELSE IF outcome.kind = "return"
        THEN /\ Return(InvalidDeduction(line))
             /\ expected_node' = IF outcome.applied THEN outcome.expected ELSE expected_node
             /\ UNCHANGED <<scope_stack, valid_lines, exception, pos>>
        ELSE /\ Return(ExceptClause(outcome.exception, line))
             /\ exception' = outcome.exception
             /\ UNCHANGED <<scope_stack, valid_lines, expected_node, pos>>
  /\ UNCHANGED <<input_data, lines, line_map, scope_assumptions, current_scope_level>>

\* variant of Finish: a scope still open at the end is reported
FinishAllClosed ==
  /\ pc = "loop" /\ pos > Len(lines)
  /\ IF Len(scope_stack) > 1 THEN Return(Result(UNMATCHED, NoLineNumber))
     ELSE Return(Result(VALID, NoLineNumber))
  /\ UNCHANGED <<input_data, lines, line_map, valid_lines, scope_stack, scope_assumptions,
                 current_scope_level, pos, expected_node, exception>>

\* line 687
Finish ==
  /\ pc = "loop" /\ pos > Len(lines)
  /\ Return(Result(VALID, NoLineNumber))
  /\ UNCHANGED <<input_data, lines, line_map, valid_lines, scope_stack, scope_assumptions,
                 current_scope_level, pos, expected_node, exception>>

Next == Parse \/ Prepare \/ ScopeMarker \/ IntroLine \/ RuleLine \/ Finish

(***************************************************************************)
(* The proof texts the runs start from: every sequence of at most MaxLines *)
(* lines over one of the line pools below.                                 *)
(***************************************************************************)
MaxLines == 4

Fp == <<"p">>
Fq == <<"q">>

Premise(number, formula) == ContentLine(0, number, formula, "Premise", <<>>)

\* scopes: an assumption inside a scope, lines that use it after the scope
PoolScope ==
  { MarkerLine(2, BEGIN_SCOPE),
    MarkerLine(2, END_SCOPE),
    ContentLine(2, <<"1">>, Fp, "Assumption", <<>>),
    Premise(<<"2">>, Fq),
    ContentLine(0, <<"3">>, Fp, "Copy", <<Bare("1")>>),
    ContentLine(0, <<"4">>, <<"q", "&", "p">>, "&i", <<Bare("2"), Bare("1")>>),
    ContentLine(0, <<"5">>, <<"q", "&", "q">>, "&i", <<Bare("2"), Bare("1")>>) }

\* bare references to lines that are missing, later in the text, or the line itself
PoolRefsA ==
  { Premise(<<"1">>, Fp),
    ContentLine(0, <<"2">>, Fp, "Copy", <<Bare("3")>>),
    ContentLine(0, <<"3">>, Fp, "Copy", <<Bare("3")>>),
    ContentLine(0, <<"3">>, <<"p", "&", "p">>, "&i", <<Bare("1"), Bare("4")>>),
    ContentLine(0, <<"4">>, Fq, "_e", <<Bare("5")>>),
    ContentLine(0, <<"2">>, <<"p", "|", "q">>, "|i1", <<Bare("2")>>),
    ContentLine(0, <<"4">>, Fp, "Assumption", <<>>) }

PoolRefsB ==
  { Premise(<<"1">>, <<"p", ">", "q">>),
    ContentLine(0, <<"2">>, Fq, ">e", <<Bare("1"), Bare("3")>>),
    ContentLine(0, <<"3">>, Fp, "Assumption", <<>>),
    ContentLine(0, <<"2">>, Fp, "&e1", <<Bare("4")>>),
    ContentLine(0, <<"4">>, Fp, "MT", <<Bare("1"), Bare("5")>>),
    ContentLine(0, <<"5">>, Fq, "~~i", <<Bare("2")>>),
    ContentLine(0, <<"6">>, Fp, "|e", <<Bare("5"), Block("1", "2"), Block("3", "4")>>) }

\* declared formulas that differ from the computed one in the order of children
PoolEq ==
  { Premise(<<"1">>, Fp),
    Premise(<<"2">>, <<"q", "|", "p">>),
    ContentLine(0, <<"3">>, <<"p", "&", "(", "q", "|", "p", ")">>, "&i", <<Bare("1"), Bare("2")>>),
    ContentLine(0, <<"3">>, <<"(", "q", "|", "p", ")", "&", "p">>, "&i", <<Bare("1"), Bare("2")>>),
    ContentLine(0, <<"4">>, <<"p", "|", "q">>, "Copy", <<Bare("2")>>),
    ContentLine(0, <<"4">>, <<"p", "|", "q">>, "|i1", <<Bare("1")>>),
    ContentLine(0, <<"5">>, Fp, "&e1", <<Bare("3")>>) }

\* block references
PoolBlock ==
  { MarkerLine(2, BEGIN_SCOPE),
    MarkerLine(2, END_SCOPE),
    Premise(<<"1">>, Fp),
    ContentLine(2, <<"2">>, Fq, "Assumption", <<>>),
    ContentLine(2, <<"3">>, Fq, "Copy", <<Bare("2")>>),
    ContentLine(0, <<"4">>, <<"q", ">", "q">>, ">i", <<Block("2", "3")>>),
    ContentLine(0, <<"4">>, <<"q", ">", "p">>, ">i", <<Block("2", "1")>>) }

\* malformed lines among well-formed ones
PoolBad ==
  { Premise(<<"1">>, Fp),
    MarkerLine(0, END_SCOPE),
    ContentLine(0, <<"4">>, Fq, "Copy", <<Bare("1")>>),
    ShortLine(0, 2, <<"1">>, Fp),
    Premise(<<"x">>, Fp),
    ContentLine(0, <<"2">>, Fp, "Copy", <<Bare("x")>>),
    Premise(<<"3">>, <<CONTRADICTION>>),
    BlankLine }

\* unknown rules, wrong kinds and wrong numbers of references
PoolKinds ==
  { Premise(<<"1">>, Fp),
    ContentLine(0, <<"2">>, Fp, "Foo", <<>>),
    ContentLine(0, <<"2">>, Fp, "|e", <<Bare("1"), Bare("1"), Bare("1")>>),
    ContentLine(0, <<"2">>, Fp, "Copy", <<Block("1", "1")>>),
    ContentLine(0, <<"2">>, <<"p", ">", "p">>, ">i", <<Bare("1")>>),
    ContentLine(0, <<"2">>, <<"p", "&", "p">>, "&i", <<Bare("1")>>),
    ContentLine(0, <<"2">>, <<"p", "|", "~", "p">>, "LEM", <<Bare("1")>>) }

Pools == {PoolScope, PoolRefsA, PoolRefsB, PoolEq, PoolBlock, PoolBad, PoolKinds}

TextsOver(pool) == UNION {[1..n -> pool] : n \in 0..MaxLines}

Texts == UNION {TextsOver(pool) : pool \in Pools}

Init ==
  /\ input_data \in Texts
  /\ pc = "parse"
  /\ lines = <<>>
  /\ line_map = <<>>
  /\ valid_lines = {}
  /\ scope_stack = <<{}>>
  /\ scope_assumptions = <<>>
  /\ current_scope_level = 0
  /\ pos = 1
  /\ expected_node = None
  /\ exception = ""
  /\ result = NoResult

Spec == Init /\ [][Next]_vars

(***************************************************************************)
(* Vocabulary of the properties                                            *)
(***************************************************************************)
Started == pc \in {"loop", "done"}

IsMarker(l) == l.line_number = NoLineNumber

IsContent(l) == l.line_number /= NoLineNumber

\* a content line justified by an inference rule
IsRuleLine(l) == IsContent(l) /\ l.rule_name \notin {"Premise", "Assumption"}

\* the lines the loop has passed: markers, Premise and Assumption lines, and
\* rule lines that were accepted
Passed == IF Started THEN 1..(pos - 1) ELSE {}

\* the line the run stopped at with a result other than Valid Deduction
Stopped == pc = "done" /\ pos <= Len(lines)

BareRefs(l) == {l.refs[i].start : i \in {j \in 1..Len(l.refs) : isinstance_int(l.refs[j])}}

BlockRefs(l) == {l.refs[i] : i \in {j \in 1..Len(l.refs) : isinstance_tuple(l.refs[j])}}

\* rules of the catalog whose references are bare line numbers
BareRules == {"&i", "&e1", "&e2", ">e", "~e", "~~e", "~~i", "MT", "Copy", "|i1", "|i2",
              "_e", "|e"}

\* rules of the catalog that take a block reference
BlockRules == {">i", "~i", "PBC", "|e"}

Count(ls, k, marker) == Cardinality({i \in 1..(k - 1) : ls[i].rule_name = marker /\ IsMarker(ls[i])})

\* nesting depth of the text just before position k
TextDepth(ls, k) == Count(ls, k, BEGIN_SCOPE) - Count(ls, k, END_SCOPE)

\* the line at position i lies in a scope that an EndScope before position k closed
InClosedScope(ls, i, k) ==
  /\ TextDepth(ls, i) >= 1
  /\ \E j \in (i + 1)..(k - 1) :
       /\ IsMarker(ls[j]) /\ ls[j].rule_name = END_SCOPE
       /\ TextDepth(ls, j) = TextDepth(ls, i)

\* line numbers that, before position k, are carried only by non-Premise lines
\* inside scopes closed before k
ClosedNumbers(ls, k) ==
  {ls[i].line_number : i \in {j \in 1..(k - 1) :
       IsContent(ls[j]) /\ ls[j].rule_name /= "Premise" /\ InClosedScope(ls, j, k)}}

(***************************************************************************)
(* C1  Scope discipline: a rule line that references by bare number a line *)
(* inside a scope already closed is rejected, so no line the loop has      *)
(* passed holds such a reference.                                          *)
(***************************************************************************)
C1_ClosedScopeRejected ==
  \A k \in Passed :
    IsRuleLine(lines[k]) => BareRefs(lines[k]) \cap ClosedNumbers(lines, k) = {}

(***************************************************************************)
(* C2  Soundness.  Replaying a rule line: the rule applied to the formulas *)
(* of the lines and blocks the line references.                            *)
(***************************************************************************)
Formula(n) == IF n \in DOMAIN line_map THEN line_map[n].formula ELSE None

ReplayNodes(l) ==
  LET r == l.refs
      bare(i) == IF i <= Len(r) /\ isinstance_int(r[i]) THEN Formula(r[i].start) ELSE None
      first(i) == IF i <= Len(r) /\ isinstance_tuple(r[i]) THEN Formula(r[i].start) ELSE None
      last(i) == IF i <= Len(r) /\ isinstance_tuple(r[i]) THEN Formula(r[i].end) ELSE None
  IN CASE l.rule_name \in {"&e1", "&e2", "~~e", "~~i", "Copy"} -> <<bare(1)>>
       [] l.rule_name \in {"&i", ">e", "~e", "MT"} -> <<bare(1), bare(2)>>
       [] l.rule_name \in {">i", "~i", "PBC"} -> <<first(1), last(1)>>
       [] l.rule_name \in {"|i1", "|i2", "_e"} -> <<bare(1), l.formula>>
       [] l.rule_name = "|e" -> <<bare(1), last(2), last(3)>>
       [] OTHER -> <<>>

Replayable(l) ==
  /\ l.rule_name \in BareRules \cup BlockRules
  /\ \A i \in 1..Len(ReplayNodes(l)) : ReplayNodes(l)[i] /= None

Replay(l) == IF Replayable(l) THEN ApplyRule(l.rule_name, ReplayNodes(l)) ELSE LogicRuleError

\* C2 as claimed: in an accepted proof the replay of every rule line gives
\* exactly the declared formula, children in the same order at every depth.
C2_ReplayExact ==
  (pc = "done" /\ result.msg = VALID) =>
    \A k \in 1..Len(lines) :
      IsRuleLine(lines[k]) => Replay(lines[k]).ok /\ Replay(lines[k]).node = lines[k].formula

\* C2 amended: in an accepted proof the replay of every rule line succeeds and
\* gives a formula equal to the declared one up to the order of the children of
\* "&" and "|" nodes.
C2_ReplayEqual ==
  (pc = "done" /\ result.msg = VALID) =>
    \A k \in 1..Len(lines) :
      IsRuleLine(lines[k]) =>
        /\ Replay(lines[k]).ok
        /\ nodes_equal_phase5(Replay(lines[k]).node, lines[k].formula)

\* an accepted proof with a rule line whose declared formula is the replayed
\* one with children swapped
C2_Witness ==
  /\ pc = "done" /\ result.msg = VALID
  /\ \E k \in 1..Len(lines) :
       /\ IsRuleLine(lines[k])
       /\ Replay(lines[k]).ok
       /\ Replay(lines[k]).node /= lines[k].formula

(***************************************************************************)
(* C3  A line whose rule takes bare references and one of whose bare       *)
(* references is not in valid_lines when the line is processed is rejected *)
(* at that line.                                                           *)
(***************************************************************************)
AtBareLineWithInvalidRef ==
  /\ pc = "loop" /\ pos <= Len(lines)
  /\ IsRuleLine(lines[pos])
  /\ lines[pos].rule_name \in BareRules
  /\ BareRefs(lines[pos]) \ valid_lines /= {}

C3_InvalidBareRefRejected ==
  [][AtBareLineWithInvalidRef =>
       /\ pc' = "done"
       /\ result' = Result(INVALID_AT, lines[pos].line_number)
       /\ valid_lines' = valid_lines]_vars

\* a run stopped at a line of a known bare-reference rule because it refers to a
\* line that stands later in the text
C3_Witness ==
  /\ Stopped /\ result = Result(INVALID_AT, lines[pos].line_number)
  /\ lines[pos].rule_name \in BareRules
  /\ \E n \in BareRefs(lines[pos]) \ valid_lines :
       \E j \in (pos + 1)..Len(lines) : lines[j].line_number = n

(***************************************************************************)
(* C4  A rule line with a block reference (start, end) is accepted only if *)
(* start <= end and every line numbered start..end, start and end          *)
(* included, is in valid_lines when the rule line is processed.            *)
(***************************************************************************)
BlockValid(b, valid) ==
  /\ b.start <= b.end
  /\ b.start \in valid /\ b.end \in valid
  /\ \A i \in b.start..b.end : i \in valid

C4_BlockLinesValid ==
  [][(/\ pc = "loop" /\ pos <= Len(lines)
      /\ IsRuleLine(lines[pos])
      /\ lines[pos].rule_name \in BlockRules
      /\ pos' = pos + 1)
     => \A b \in BlockRefs(lines[pos]) : BlockValid(b, valid_lines)]_vars

(***************************************************************************)
(* C5  An EndScope reached with only the base level on the stack ends the  *)
(* run at once with the unmatched-EndScope result.                         *)
(***************************************************************************)
\* positions of the EndScope markers that close no open scope
UnmatchedEnds(ls) ==
  {k \in 1..Len(ls) : IsMarker(ls[k]) /\ ls[k].rule_name = END_SCOPE /\ TextDepth(ls, k) = 0}

C5_UnmatchedEndScope ==
  Started =>
    \A k \in UnmatchedEnds(lines) :
      /\ pos <= k
      /\ (pc = "done" /\ pos = k) => result = Result(UNMATCHED, NoLineNumber)
      /\ pc = "done" => result.msg /= VALID

\* the run ended at an unmatched EndScope that is followed by more lines
C5_Witness ==
  /\ Stopped /\ pos \in UnmatchedEnds(lines)
  /\ result = Result(UNMATCHED, NoLineNumber)
  /\ pos < Len(lines)
  /\ \E j \in (pos + 1)..Len(lines) : IsRuleLine(lines[j])

(***************************************************************************)
(* C6  The first line that fails ends the run: the result names that line, *)
(* every rule line before it passed, nothing happens after the return, and *)
(* no later line ever joins valid_lines.                                   *)
(***************************************************************************)
\* what valid_lines holds when the loop reaches position k with every line before
\* it passed: the Premise lines and the content lines before k
ValidBefore(k) ==
  Premises(line_map) \cup
  {lines[j].line_number : j \in {i \in 1..(k - 1) :
       IsContent(lines[i]) /\ lines[i].rule_name /= "Premise"}}

\* the rule line at position k passes verification
Passes(k) ==
  /\ rule_name_to_class(lines[k].rule_name)
  /\ CheckLine(lines[k], line_map, ValidBefore(k)).kind = "accept"

C6_FirstFailingLine ==
  Started =>
    /\ \A k \in Passed : IsRuleLine(lines[k]) => Passes(k)
    /\ (pc = "done" /\ result.msg = INVALID_AT) =>
         /\ pos <= Len(lines)
         /\ IsRuleLine(lines[pos])
         /\ ~Passes(pos)
         /\ result.n = lines[pos].line_number
    /\ valid_lines \subseteq
         Premises(line_map) \cup {lines[j].line_number : j \in Passed}
    /\ pc = "done" => ~ENABLED Next

\* the run stopped at a failing line that is followed by a line that would pass
C6_Witness ==
  /\ Stopped /\ result = Result(INVALID_AT, lines[pos].line_number)
  /\ pos > 1
  /\ \E j \in (pos + 1)..Len(lines) :
       /\ IsRuleLine(lines[j])
       /\ CheckLine(lines[j], line_map, valid_lines).kind = "accept"
       /\ lines[j].line_number \notin valid_lines

(***************************************************************************)
(* C7  A malformed content line anywhere in the text makes the run return  *)
(* "Invalid input format:" with no line verified.                          *)
(***************************************************************************)
Malformed(raw) ==
  /\ ~IsBlank(raw)
  /\ raw.marker \notin {BEGIN_SCOPE, END_SCOPE}
  /\ \/ raw.nparts < 3
     \/ ~int(raw.number).ok
     \/ \E i \in 1..Len(raw.refs) : \E j \in 1..Len(raw.refs[i]) : ~int(raw.refs[i][j]).ok
     \/ ~parse_tree(raw.formula).ok

C7_MalformedAbortsAll ==
  ((\E i \in 1..Len(input_data) : Malformed(input_data[i])) /\ pc /= "parse") =>
    /\ pc = "done"
    /\ result.msg = INVALID_FORMAT
    /\ result.n \in 1..Len(input_data) /\ Malformed(input_data[result.n])
    /\ lines = <<>> /\ valid_lines = {} /\ pos = 1

\* an invalid-format result for a text that has, before its malformed line, an
\* unmatched EndScope or a rule line that refers to a missing line
C7_Witness ==
  /\ pc = "done" /\ result.msg = INVALID_FORMAT
  /\ \E i \in 1..(result.n - 1) :
       \/ input_data[i].marker = END_SCOPE
       \/ /\ input_data[i].rule_name = "Copy"
          /\ \A j \in 1..Len(input_data) : input_data[j].number /= <<"1">>
  /\ \E i \in 1..Len(input_data) : input_data[i].nparts = 2
  /\ \E i \in 1..Len(input_data) : ~int(input_data[i].number).ok /\ input_data[i].nparts = 3

(***************************************************************************)
(* C8  Every run ends with one of the four result strings; every exception *)
(* raised on the way is caught and turned into one of them.                *)
(***************************************************************************)
ResultStrings == {VALID, INVALID_AT, UNMATCHED, INVALID_FORMAT}

C8_AlwaysAResultString ==
  /\ pc = "done" => result.msg \in ResultStrings
  /\ pc /= "done" =>
       /\ result = NoResult
       /\ pc \in {"parse", "prepare", "loop"}
       /\ pc = "loop" => ENABLED (ScopeMarker \/ IntroLine \/ RuleLine \/ Finish)
  /\ exception /= "" => (pc = "done" /\ result.msg \in {INVALID_AT, INVALID_FORMAT})

\* a run that ended by catching an exception other than LogicRuleError
C8_Witness ==
  /\ pc = "done"
  /\ exception \in {"TypeError", "AttributeError"}
  /\ result = Result(INVALID_AT, lines[pos].line_number)

(***************************************************************************)
(* C9  The comparison of a rule's result with the declared formula ignores *)
(* the order of the children of "&" and "|" for every rule: no line is     *)
(* rejected for a result that differs from its declared formula only in    *)
(* that order.                                                             *)
(***************************************************************************)
C9_CommutativeForEveryRule ==
  (Stopped /\ IsRuleLine(lines[pos]) /\ rule_name_to_class(lines[pos].rule_name)) =>
    LET o == CheckLine(lines[pos], line_map, valid_lines)
    IN ~(o.kind = "return" /\ o.applied
         /\ nodes_equal_phase5(o.expected, lines[pos].formula))

(***************************************************************************)
(* C10  The rule &i applied to the ordered inputs (a0, a1) returns the     *)
(* conjunction with a0 as left child and a1 as right child.                *)
(***************************************************************************)
Conjunction(l) ==
  [value |-> AND, left |-> Formula(l.refs[1].start), right |-> Formula(l.refs[2].start)]

C10_AndIntroKeepsOrder ==
  /\ (pc = "loop" /\ pos > 1 /\ IsContent(lines[pos - 1]) /\ lines[pos - 1].rule_name = "&i")
       => expected_node = Conjunction(lines[pos - 1])
  /\ (Stopped /\ IsContent(lines[pos]) /\ lines[pos].rule_name = "&i"
      /\ CheckLine(lines[pos], line_map, valid_lines).applied)
       => expected_node = Conjunction(lines[pos])

\* an accepted &i line whose first reference is the higher line number and whose
\* two inputs differ
C10_Witness ==
  /\ pc = "loop" /\ pos > 1
  /\ IsContent(lines[pos - 1]) /\ lines[pos - 1].rule_name = "&i"
  /\ lines[pos - 1].refs[1].start > lines[pos - 1].refs[2].start
  /\ expected_node.left = Formula(lines[pos - 1].refs[1].start)
  /\ expected_node.left /= expected_node.right

(***************************************************************************)
(* Texts about discharge rules: blocks, their start lines and the formula  *)
(* declared by the line that discharges them.                              *)
(***************************************************************************)
InitOver(texts) ==
  /\ input_data \in texts
  /\ pc = "parse"
  /\ lines = <<>>
  /\ line_map = <<>>
  /\ valid_lines = {}
  /\ scope_stack = <<{}>>
  /\ scope_assumptions = <<>>
  /\ current_scope_level = 0
  /\ pos = 1
  /\ expected_node = None
  /\ exception = ""
  /\ result = NoResult

Fqp == <<"q", "|", "p">>

\* >i over the block 1-2 with declared formulas that match, match up to the
\* order of the children of "|", or do not match
PoolImp ==
  { MarkerLine(2, BEGIN_SCOPE),
    MarkerLine(2, END_SCOPE),
    ContentLine(2, <<"1">>, Fqp, "Assumption", <<>>),
    Premise(<<"2">>, Fp),
    ContentLine(0, <<"3">>, <<"(", "q", "|", "p", ")", ">", "p">>, ">i", <<Block("1", "2")>>),
    ContentLine(0, <<"3">>, <<"(", "p", "|", "q", ")", ">", "p">>, ">i", <<Block("1", "2")>>),
    ContentLine(0, <<"3">>, <<"p", ">", "(", "q", "|", "p", ")">>, ">i", <<Block("1", "2")>>),
    ContentLine(0, <<"3">>, <<"(", "q", "|", "p", ")", "&", "p">>, ">i", <<Block("1", "2")>>) }

\* blocks whose start line is a Premise, a derived line, or no line
PoolStart ==
  { Premise(<<"2">>, Fp),
    ContentLine(0, <<"3">>, Fp, "Copy", <<Bare("2")>>),
    ContentLine(0, <<"5">>, <<"p", ">", "p">>, ">i", <<Block("2", "2")>>),
    ContentLine(0, <<"5">>, <<"p", ">", "p">>, ">i", <<Block("3", "3")>>),
    ContentLine(0, <<"5">>, <<"p", ">", "p">>, ">i", <<Block("4", "4")>>),
    ContentLine(0, <<"5">>, <<"~", "p">>, "~i", <<Block("2", "3")>>),
    ContentLine(0, <<"5">>, Fp, "PBC", <<Block("2", "3")>>),
    ContentLine(0, <<"5">>, Fp, "|e", <<Bare("2"), Block("2", "3"), Block("4", "4")>>) }

TextsBlocks == TextsOver(PoolImp) \cup TextsOver(PoolStart)

InitBlocks == InitOver(TextsBlocks)

SpecBlocks == InitBlocks /\ [][Next]_vars

\* the block of a line that has exactly one reference, a block
TheBlock(l) == l.refs[1]

(***************************************************************************)
(* C11  A line justified by >i with the block start-end passes only if its *)
(* declared formula is an implication whose antecedent is the formula of   *)
(* line start, an Assumption, and whose consequent is the formula of line  *)
(* end.                                                                    *)
(***************************************************************************)
\* C11 as claimed: antecedent and consequent are identical to the two formulas
C11_ImpIntroExact ==
  \A k \in Passed :
    (IsContent(lines[k]) /\ lines[k].rule_name = ">i") =>
      /\ Len(lines[k].refs) = 1 /\ isinstance_tuple(TheBlock(lines[k]))
      /\ TheBlock(lines[k]).start \in DOMAIN line_map
      /\ line_map[TheBlock(lines[k]).start].rule_name = "Assumption"
      /\ lines[k].formula.value = IMPLIES
      /\ lines[k].formula.left = Formula(TheBlock(lines[k]).start)
      /\ lines[k].formula.right = Formula(TheBlock(lines[k]).end)

\* C11 amended: antecedent and consequent equal the two formulas up to the
\* order of the children of "&" and "|" nodes
C11_ImpIntroEqual ==
  \A k \in Passed :
    (IsContent(lines[k]) /\ lines[k].rule_name = ">i") =>
      /\ Len(lines[k].refs) = 1 /\ isinstance_tuple(TheBlock(lines[k]))
      /\ TheBlock(lines[k]).start \in DOMAIN line_map
      /\ line_map[TheBlock(lines[k]).start].rule_name = "Assumption"
      /\ lines[k].formula.value = IMPLIES
      /\ nodes_equal_phase5(lines[k].formula.left, Formula(TheBlock(lines[k]).start))
      /\ nodes_equal_phase5(lines[k].formula.right, Formula(TheBlock(lines[k]).end))

\* a >i line over a block with different start and end formulas passed although
\* its antecedent is the assumption with the children of "|" in the other order
C11_Witness ==
  /\ pc = "done" /\ result.msg = VALID
  /\ \E k \in 1..Len(lines) :
       /\ IsContent(lines[k]) /\ lines[k].rule_name = ">i"
       /\ Formula(TheBlock(lines[k]).start) /= Formula(TheBlock(lines[k]).end)
       /\ lines[k].formula.left /= Formula(TheBlock(lines[k]).start)
       /\ lines[k].formula.right = Formula(TheBlock(lines[k]).end)

(***************************************************************************)
(* C12  A line justified by >i, ~i, PBC or |e is rejected whenever the     *)
(* start line of a block it references has a rule other than Assumption or *)
(* does not exist.                                                         *)
(***************************************************************************)
StartsAtAssumption(b) ==
  b.start \in DOMAIN line_map /\ line_map[b.start].rule_name = "Assumption"

C12_BlockStartsAtAssumption ==
  /\ \A k \in Passed :
       (IsRuleLine(lines[k]) /\ lines[k].rule_name \in BlockRules) =>
         \A b \in BlockRefs(lines[k]) : StartsAtAssumption(b)
  /\ (/\ Stopped /\ IsRuleLine(lines[pos]) /\ lines[pos].rule_name \in BlockRules
      /\ \E b \in BlockRefs(lines[pos]) : ~StartsAtAssumption(b))
       => result = Result(INVALID_AT, lines[pos].line_number)

\* a >i line was rejected whose block is valid and whose declared formula is
\* the implication of the block, only its start line is a Premise
C12_Witness ==
  /\ Stopped /\ IsContent(lines[pos]) /\ lines[pos].rule_name = ">i"
  /\ result = Result(INVALID_AT, lines[pos].line_number)
  /\ LET b == TheBlock(lines[pos])
     IN /\ {b.start, b.end} \subseteq valid_lines
        /\ RangeValid(b.start, b.end, valid_lines)
        /\ line_map[b.start].rule_name = "Premise"
        /\ ImpIntro(<<Formula(b.start), Formula(b.end)>>).node = lines[pos].formula

(***************************************************************************)
(* Texts about Premise and Assumption lines, scopes left open, line        *)
(* numbers used twice and rule names outside the catalog.                  *)
(***************************************************************************)
\* a Premise inside a scope, an Assumption outside any scope, an Assumption
\* that carries the number of the Premise
PoolPremise ==
  { MarkerLine(2, BEGIN_SCOPE),
    MarkerLine(2, END_SCOPE),
    ContentLine(2, <<"1">>, Fp, "Premise", <<>>),
    ContentLine(0, <<"1">>, Fq, "Assumption", <<>>),
    ContentLine(0, <<"2">>, Fq, "Assumption", <<>>),
    ContentLine(0, <<"3">>, Fp, "Copy", <<Bare("1")>>),
    ContentLine(0, <<"4">>, Fq, "Copy", <<Bare("2")>>) }

\* two Premise lines numbered 1, and rule names the catalog does not hold
PoolNames ==
  { Premise(<<"1">>, Fp),
    Premise(<<"1">>, Fq),
    ContentLine(0, <<"2">>, Fp, "Copy", <<Bare("1")>>),
    ContentLine(0, <<"2">>, Fq, "Copy", <<Bare("1")>>),
    ContentLine(0, <<"3">>, Fp, "Foo", <<>>),
    ContentLine(0, <<"3">>, Fp, "copy", <<Bare("1")>>),
    ContentLine(0, <<"4">>, Fp, "premise", <<>>) }

TextsScopes == TextsOver(PoolPremise) \cup TextsOver(PoolNames)

InitScopes == InitOver(TextsScopes)

SpecScopes == InitScopes /\ [][Next]_vars

IsPremiseLine(l) == IsContent(l) /\ l.rule_name = "Premise"

\* the base level of the scope stack
BaseLevel == scope_stack[1]

NumberKept(i) ==
  \A j \in (i + 1)..Len(lines) :
    lines[j].line_number = lines[i].line_number => IsPremiseLine(lines[j])

OnlyIntroLines(ls) ==
  \A i \in 1..Len(ls) : IsContent(ls[i]) => ls[i].rule_name \in {"Premise", "Assumption"}

C14_IntroLinesOnlyValid ==
  /\ (pc = "done" /\ parse(input_data).ok /\ OnlyIntroLines(lines) /\ UnmatchedEnds(lines) = {})
       => result = Result(VALID, NoLineNumber)
  /\ Started =>
       \A k \in Passed :
         (IsContent(lines[k]) /\ lines[k].rule_name = "Assumption" /\ TextDepth(lines, k) = 0)
           => lines[k].line_number \in valid_lines

\* a text with an Assumption outside any scope and nothing but Premise and
\* Assumption lines ended with Valid Deduction
C14_Witness ==
  /\ pc = "done" /\ result = Result(VALID, NoLineNumber)
  /\ OnlyIntroLines(lines)
  /\ \E k \in 1..Len(lines) :
       /\ IsContent(lines[k]) /\ lines[k].rule_name = "Assumption"
       /\ TextDepth(lines, k) = 0
  /\ \E k \in 1..Len(lines) : IsPremiseLine(lines[k])

(***************************************************************************)
(* C15  A proof that ends with scopes still open and in which every line   *)
(* passes is accepted.                                                     *)
(***************************************************************************)
EveryLinePasses ==
  /\ parse(input_data).ok
  /\ UnmatchedEnds(lines) = {}
  /\ \A k \in 1..Len(lines) : IsRuleLine(lines[k]) => Passes(k)

C15_OpenScopesAccepted ==
  (pc = "done" /\ EveryLinePasses /\ TextDepth(lines, Len(lines) + 1) > 0)
    => result = Result(VALID, NoLineNumber)

\* an accepted proof with a rule line inside a scope that is never closed
C15_Witness ==
  /\ pc = "done" /\ result = Result(VALID, NoLineNumber)
  /\ TextDepth(lines, Len(lines) + 1) > 0
  /\ Len(scope_stack) > 1
  /\ \E k \in 1..Len(lines) : IsRuleLine(lines[k]) /\ TextDepth(lines, k) > 0

(***************************************************************************)
(* C16  Line numbers are unique in every accepted proof: a text in which   *)
(* two content lines carry the same number is never Valid Deduction.       *)
(***************************************************************************)
UniqueNumbers(ls) ==
  \A i, j \in 1..Len(ls) :
    (IsContent(ls[i]) /\ IsContent(ls[j]) /\ ls[i].line_number = ls[j].line_number) => i = j

C16_UniqueLineNumbers ==
  (pc = "done" /\ result.msg = VALID) => UniqueNumbers(lines)

(***************************************************************************)
(* C17  A content line whose rule name is not in the catalog is rejected   *)
(* at that line, with no exception and without joining valid_lines.        *)
(***************************************************************************)
AtUnknownRuleLine ==
  /\ pc = "loop" /\ pos <= Len(lines)
  /\ IsRuleLine(lines[pos])
  /\ lines[pos].rule_name \notin Phase4Rules \cup Phase5Rules

C17_UnknownRuleRejected ==
  [][AtUnknownRuleLine =>
       /\ pc' = "done"
       /\ result' = Result(INVALID_AT, lines[pos].line_number)
       /\ exception' = ""
       /\ valid_lines' = valid_lines
       /\ scope_stack' = scope_stack]_vars

\* the run stopped at a line whose rule name is "premise", after a line that
\* passed
C17_Witness ==
  /\ Stopped /\ pos > 1
  /\ IsRuleLine(lines[pos]) /\ lines[pos].rule_name = "premise"
  /\ result = Result(INVALID_AT, lines[pos].line_number)
  /\ exception = ""
  /\ lines[pos].line_number \notin valid_lines

(***************************************************************************)
(* Texts about negation and the constants "_" (bottom) and "^" (top).      *)
(***************************************************************************)
\* a formula, its negation and the negation of its negation, and ~e lines over
\* pairs of them
PoolNeg ==
  { Premise(<<"1">>, Fp),
    Premise(<<"2">>, <<"~", "p">>),
    Premise(<<"3">>, <<"~", "(", "~", "p", ")">>),
    ContentLine(0, <<"4">>, Fq, "~e", <<Bare("1"), Bare("2")>>),
    ContentLine(0, <<"4">>, Fq, "~e", <<Bare("2"), Bare("1")>>),
    ContentLine(0, <<"4">>, Fq, "~e", <<Bare("2"), Bare("3")>>),
    ContentLine(0, <<"4">>, Fq, "~e", <<Bare("1"), Bare("3")>>) }

\* a block that ends with a line written "_", and ~i lines over it
PoolBottom ==
  { MarkerLine(2, BEGIN_SCOPE),
    MarkerLine(2, END_SCOPE),
    ContentLine(2, <<"1">>, Fp, "Assumption", <<>>),
    Premise(<<"2">>, <<CONTRADICTION>>),
    Premise(<<"2">>, <<TOP>>),
    Premise(<<"2">>, Fq),
    ContentLine(0, <<"3">>, <<"~", "p">>, "~i", <<Block("1", "2")>>),
    ContentLine(0, <<"3">>, Fq, "~i", <<Block("1", "2")>>) }

TextsNegation == TextsOver(PoolNeg) \cup TextsOver(PoolBottom)

InitNegation == InitOver(TextsNegation)

SpecNegation == InitNegation /\ [][Next]_vars

\* n is the negation of x as parse_tree builds it: the operand is the right child
NegationOf(n, x) == n.value = NOT /\ n.right = x

(***************************************************************************)
(* C18  The rule ~e applied to two parser-built formulas, one ~X and the   *)
(* other X, yields bottom whichever comes first, for every X; it fails     *)
(* when neither input is the negation of the other.                        *)
(***************************************************************************)
C18_NegElimGivesBottom ==
  (/\ Started /\ pos <= Len(lines)
   /\ IsContent(lines[pos]) /\ lines[pos].rule_name = "~e"
   /\ Len(lines[pos].refs) = 2
   /\ BareRefs(lines[pos]) \subseteq valid_lines
   /\ BlockRefs(lines[pos]) = {})
    => LET a == Formula(lines[pos].refs[1].start)
           b == Formula(lines[pos].refs[2].start)
       IN IF NegationOf(a, b) \/ NegationOf(b, a)
          THEN NegElim(<<a, b>>) = Returns(Node(CONTRADICTION))
          ELSE ~NegElim(<<a, b>>).ok

(***************************************************************************)
(* C19  A line justified by ~i with the block start-end, where line start  *)
(* is an Assumption A and line end carries bottom, is accepted when its    *)
(* declared formula is ~A.                                                 *)
(***************************************************************************)
\* the text is an Assumption A, a Premise written "_", and a ~i line over the
\* block of the two that declares ~A
NegIntroText(txt) ==
  /\ Len(txt) = 3
  /\ txt[1].rule_name = "Assumption" /\ txt[1].number = <<"1">>
  /\ txt[2].rule_name = "Premise" /\ txt[2].number = <<"2">>
  /\ txt[2].formula = <<CONTRADICTION>>
  /\ txt[3].rule_name = "~i" /\ txt[3].number = <<"3">>
  /\ txt[3].refs = <<Block("1", "2")>>
  /\ txt[3].formula = <<NOT>> \o txt[1].formula

C19_NegIntroAccepted ==
  (pc = "done" /\ NegIntroText(input_data)) => result = Result(VALID, NoLineNumber)

(***************************************************************************)
(* C20  The formula parser treats "_" and "^" as formula tokens: the text  *)
(* "_" parses to a single leaf, and a proof whose only unusual lines       *)
(* declare "_" or "^" is not reported as Invalid input format.             *)
(***************************************************************************)
Constants == {<<CONTRADICTION>>, <<TOP>>}

C20_ConstantsParse ==
  /\ \A i \in 1..Len(input_data) :
       input_data[i].formula \in Constants =>
         parse_tree(input_data[i].formula) =
           [ok |-> TRUE, tree |-> Node(input_data[i].formula[1])]
  /\ (/\ pc = "done"
      /\ \A i \in 1..Len(input_data) :
           Malformed(input_data[i]) => input_data[i].formula \in Constants)
       => result.msg /= INVALID_FORMAT

(***************************************************************************)
(* Texts about |e, LEM, _e and >e, written with several indentations.      *)
(***************************************************************************)
Fpq == <<"p", "|", "q">>

\* a proof by cases from the disjunction d: two blocks, opened by a1 and a2,
\* that both end with a copy of d, and the closing line last
OrElimText(d, a1, a2, lead1, lead2, last) ==
  << Premise(<<"1">>, d),
     MarkerLine(lead1, BEGIN_SCOPE),
     ContentLine(lead1, <<"2">>, a1, "Assumption", <<>>),
     ContentLine(lead1, <<"3">>, d, "Copy", <<Bare("1")>>),
     MarkerLine(lead1, END_SCOPE),
     MarkerLine(lead2, BEGIN_SCOPE),
     ContentLine(lead2, <<"4">>, a2, "Assumption", <<>>),
     ContentLine(lead2, <<"5">>, d, "Copy", <<Bare("1")>>),
     MarkerLine(lead2, END_SCOPE),
     last >>

Leads == {0, 2, 4}

OrElimLines ==
  { ContentLine(lead, <<"6">>, f, "|e", refs) :
      lead \in {0, 1}, f \in {Fpq, Fp},
      refs \in { <<Bare("1"), Block("2", "3"), Block("4", "5")>>,
                 <<Bare("1"), Block("4", "5"), Block("2", "3")>> } }

TextsOrElim ==
  { OrElimText(d, a1, a2, lead1, lead2, last) :
      d \in {Fpq, <<"q", "|", "p">>}, a1 \in {Fp, Fq}, a2 \in {Fp, Fq},
      lead1 \in Leads, lead2 \in Leads, last \in OrElimLines }

PoolLEM ==
  { Premise(<<"1">>, Fp),
    ContentLine(0, <<"2">>, <<"p", "|", "~", "p">>, "LEM", <<>>),
    ContentLine(2, <<"2">>, <<"~", "p", "|", "p">>, "LEM", <<>>),
    ContentLine(0, <<"2">>, Fpq, "LEM", <<>>),
    ContentLine(0, <<"2">>, <<"p", "|", "~", "p">>, "LEM", <<Bare("1")>>) }

PoolFalseElim ==
  { Premise(<<"1">>, <<CONTRADICTION>>),
    Premise(<<"1">>, Fp),
    ContentLine(0, <<"2">>, Fq, "_e", <<Bare("1")>>),
    ContentLine(4, <<"2">>, Fp, "_e", <<Bare("1")>>),
    ContentLine(0, <<"2">>, Fq, "_e", <<Block("1", "1")>>) }

PoolImpElim ==
  { Premise(<<"1">>, <<"p", ">", "q">>),
    Premise(<<"2">>, Fp),
    Premise(<<"2">>, Fq),
    ContentLine(0, <<"3">>, Fq, ">e", <<Bare("1"), Bare("2")>>),
    ContentLine(2, <<"3">>, Fq, ">e", <<Bare("2"), Bare("1")>>) }

\* an implication whose antecedent is a conjunction, and the conjunction
\* written in both orders
PoolImpElimConj ==
  { Premise(<<"1">>, <<"(", "p", "&", "q", ")", ">", "q">>),
    Premise(<<"2">>, <<"p", "&", "q">>),
    Premise(<<"2">>, <<"q", "&", "p">>),
    ContentLine(0, <<"3">>, Fq, ">e", <<Bare("1"), Bare("2")>>),
    ContentLine(1, <<"3">>, Fq, ">e", <<Bare("2"), Bare("1")>>) }

TextsRules ==
  TextsOrElim \cup TextsOver(PoolLEM) \cup TextsOver(PoolFalseElim)
    \cup TextsOver(PoolImpElim) \cup TextsOver(PoolImpElimConj)

InitRules == InitOver(TextsRules)

SpecRules == InitRules /\ [][Next]_vars

\* the loop is at a content line justified by the rule name
AtLineOf(name) ==
  /\ pc = "loop" /\ pos <= Len(lines)
  /\ IsContent(lines[pos]) /\ lines[pos].rule_name = name

\* the line the loop is at goes through: lines 679-680 are reached
LineAccepted == CheckLine(lines[pos], line_map, valid_lines).kind = "accept"

(***************************************************************************)
(* C21  A line justified by |e with references (d, s1-e1, s2-e2) is        *)
(* accepted when line d is valid and carries a disjunction L|R, both       *)
(* blocks precede the line and open with Assumptions equal to L and R,     *)
(* lines e1 and e2 carry structurally equal conclusions C, and the         *)
(* declared formula is C.                                                  *)
(***************************************************************************)
OrElimConditions(l) ==
  /\ Len(l.refs) = 3
  /\ isinstance_int(l.refs[1]) /\ isinstance_tuple(l.refs[2]) /\ isinstance_tuple(l.refs[3])
  /\ LET d == l.refs[1].start
         s1 == l.refs[2].start
         e1 == l.refs[2].end
         s2 == l.refs[3].start
         e2 == l.refs[3].end
     IN /\ d \in valid_lines /\ Formula(d).value = OR
        /\ s1 < e1 /\ e1 < s2 /\ s2 < e2 /\ e2 < l.line_number
        /\ {s1, e1, s2, e2} \subseteq DOMAIN line_map
        /\ line_map[s1].rule_name = "Assumption" /\ line_map[s2].rule_name = "Assumption"
        /\ Formula(s1) = Formula(d).left /\ Formula(s2) = Formula(d).right
        /\ Formula(e1) = Formula(e2)
        /\ l.formula = Formula(e1)

C21_OrElimAccepted ==
  (AtLineOf("|e") /\ OrElimConditions(lines[pos])) => LineAccepted

(***************************************************************************)
(* C22  A line justified by LEM with no references is accepted when its    *)
(* declared formula is A|~A or ~A|A, and a LEM line is rejected when it    *)
(* carries a reference or when its declared formula is no disjunction of   *)
(* a formula with its own negation.                                        *)
(***************************************************************************)
ExcludedMiddle(f) ==
  /\ f.value = OR
  /\ NegationOf(f.right, f.left) \/ NegationOf(f.left, f.right)

C22_LEMAccepted ==
  AtLineOf("LEM") =>
    (LineAccepted <=> (Len(lines[pos].refs) = 0 /\ ExcludedMiddle(lines[pos].formula)))

(***************************************************************************)
(* C23  A line justified by _e with exactly one bare reference is          *)
(* accepted, whatever its declared formula, when the referenced line is    *)
(* valid and is written "_"; it is rejected when the referenced line       *)
(* carries any other formula.                                              *)
(***************************************************************************)
\* a Premise written "_" and a _e line that references it
FalseElimText(txt) ==
  /\ Len(txt) = 2
  /\ txt[1].rule_name = "Premise" /\ txt[1].number = <<"1">>
  /\ txt[1].formula = <<CONTRADICTION>>
  /\ txt[2].rule_name = "_e" /\ txt[2].number = <<"2">>
  /\ txt[2].refs = <<Bare("1")>>

C23_FalseElimAccepted ==
  /\ (pc = "done" /\ FalseElimText(input_data)) => result = Result(VALID, NoLineNumber)
  /\ (/\ AtLineOf("_e") /\ LineAccepted
      /\ Len(lines[pos].refs) = 1 /\ isinstance_int(lines[pos].refs[1]))
       => Formula(lines[pos].refs[1].start) = Node(CONTRADICTION)

(***************************************************************************)
(* C24  The rule >e with ordered inputs (a0, a1) returns B only when a0 is *)
(* an implication A>B and a1 is structurally equal to A; with the          *)
(* implication second and its antecedent first, or with a1 different from  *)
(* A, the rule fails.                                                      *)
(***************************************************************************)
\* the two inputs the loop hands to the rule of the >e line it is at
ImpElimInputs ==
  <<Formula(lines[pos].refs[1].start), Formula(lines[pos].refs[2].start)>>

AtImpElimLine ==
  /\ AtLineOf(">e")
  /\ Len(lines[pos].refs) = 2
  /\ BareRefs(lines[pos]) \subseteq valid_lines /\ BlockRefs(lines[pos]) = {}

RECURSIVE LoopFrom(_, _, _, _, _)
LoopFrom(ls, lmap, valid, stack, k) ==
  IF k > Len(ls) THEN Result(VALID, NoLineNumber)
  ELSE LET line == ls[k]
           n == line.line_number
       IN IF n = NoLineNumber
          THEN IF line.rule_name = BEGIN_SCOPE
               THEN LoopFrom(ls, lmap, valid, Append(stack, {}), k + 1)
               ELSE IF OnlyBaseLevel(stack) THEN Result(UNMATCHED, NoLineNumber)
               ELSE LoopFrom(ls, lmap, valid, Front(stack), k + 1)
          ELSE IF line.rule_name = "Premise" THEN LoopFrom(ls, lmap, valid, stack, k + 1)
          ELSE IF line.rule_name = "Assumption"
          THEN LoopFrom(ls, lmap, valid \cup {n}, AddToTop(stack, n), k + 1)
          ELSE IF ~rule_name_to_class(line.rule_name) THEN InvalidDeduction(line)
          ELSE LET outcome == CheckLine(line, lmap, valid)
               IN IF outcome.kind = "accept"
                  THEN LoopFrom(ls, lmap, valid \cup {n}, AddToTop(stack, n), k + 1)
                  ELSE IF outcome.kind = "return" THEN InvalidDeduction(line)
                  ELSE ExceptClause(outcome.exception, line)

process(txt) ==
  LET parsed == parse(txt)
      lmap == LineMap(parsed.lines)
  IN IF ~parsed.ok THEN ParseExceptClause(parsed.bad)
     ELSE LoopFrom(parsed.lines, lmap, Premises(lmap), <<Premises(lmap)>>, 1)

\* the text with the leading spaces of every line removed
Flat(txt) == [i \in DOMAIN txt |-> [txt[i] EXCEPT !.lead = 0]]

(***************************************************************************)
(* C28  Indentation is cosmetic: two proof texts that differ only in the   *)
(* number of leading spaces of their lines get the same result from        *)
(* Phase5.process, for every rule including |e.  Two texts differ only in  *)
(* leading spaces when their flat texts are the same, so every text gets   *)
(* the result of its flat text.                                            *)
(***************************************************************************)
C28_IndentationCosmetic ==
  pc = "done" => /\ result = process(input_data)
                 /\ result = process(Flat(input_data))

\* a run has ended at a |e line that meets every condition of the rule and
\* whose second block is indented deeper than the first
C28_Witness ==
  /\ Stopped
  /\ lines[pos].rule_name = "|e" /\ OrElimConditions(lines[pos])
  /\ line_map[lines[pos].refs[3].start].indent > line_map[lines[pos].refs[2].start].indent
  /\ input_data /= Flat(input_data)

(***************************************************************************)
(* Phase1.is_valid (phase1/logic.py 24-93): the scanner of formula texts.  *)
(* A state is one of "S", "N", "P", "O", "L", "R"; fstack holds the open   *)
(* parentheses.                                                            *)
(***************************************************************************)
BinaryOperators == {AND, OR, IMPLIES, IFF}

\* the branch of the states S, N, O and L; "" stands for return False
AfterOpening(c) ==
  IF c = NOT THEN "N"
  ELSE IF c = LPAREN THEN "L"
  ELSE IF isalpha(c) THEN "P"
  ELSE ""

\* the branch of the states P and R
AfterOperand(c) ==
  IF c \in BinaryOperators THEN "O"
  ELSE IF c = RPAREN THEN "R"
  ELSE ""

Transition(state, c) ==
  CASE state = "S" -> AfterOpening(c)
    [] state = "N" -> AfterOpening(c)
    [] state = "P" -> AfterOperand(c)
    [] state = "O" -> AfterOpening(c)
    [] state = "L" -> AfterOpening(c)
    [] state = "R" -> AfterOperand(c)

\* variant of Accepting: the stack of open parentheses is not looked at
AcceptingAnyStack(state, fstack) == state \in {"P", "R"}

\* return state in {'P', 'R'} and not fstack
Accepting(state, fstack) == state \in {"P", "R"} /\ fstack = <<>>

RECURSIVE Scan(_, _, _)
Scan(tokens, state, fstack) ==
  IF tokens = <<>> THEN Accepting(state, fstack)
  ELSE LET c == Head(tokens)
           stack == IF c = LPAREN THEN Append(fstack, LPAREN)
                    ELSE IF c = RPAREN THEN Front(fstack)
                    ELSE fstack
       IN IF c = RPAREN /\ fstack = <<>> THEN FALSE
          ELSE IF Transition(state, c) = "" THEN FALSE
          ELSE Scan(Tail(tokens), Transition(state, c), stack)

is_valid(expr) == Scan(tokenize(expr), "S", <<>>)

\* Phase1.preorder: the lines of the printed tree, each a depth and a value
RECURSIVE preorder(_, _)
preorder(node, depth) ==
  IF node = None THEN <<>>
  ELSE <<<<depth, node.value>>>> \o preorder(node.left, depth + 1)
         \o preorder(node.right, depth + 1)

(***************************************************************************)
(* Phase2 (phase2/logic.py): conversion to conjunctive normal form and     *)
(* tree_to_string.  The functions answer [ok, tree]; ok = FALSE where the  *)
(* Python code raises (an attribute of None is read).                      *)
(***************************************************************************)
Not(x) == WithRight(Node(NOT), x)

Binary(op, l, r) == [value |-> op, left |-> l, right |-> r]

\* variant of eliminate_implications: an equivalence becomes one implication
RECURSIVE eliminate_implications_one_way(_)
eliminate_implications_one_way(node) ==
  IF node = None THEN None
  ELSE LET l == eliminate_implications_one_way(node.left)
           r == eliminate_implications_one_way(node.right)
       IN IF node.value \in {IFF, IMPLIES} THEN Binary(OR, Not(l), r)
          ELSE Binary(node.value, l, r)

RECURSIVE eliminate_implications(_)
eliminate_implications(node) ==
  IF node = None THEN None
  ELSE LET l == eliminate_implications(node.left)
           r == eliminate_implications(node.right)
       IN IF node.value = IFF
          THEN Binary(AND, Binary(OR, Not(l), r), Binary(OR, Not(r), l))
          ELSE IF node.value = IMPLIES THEN Binary(OR, Not(l), r)
          ELSE Binary(node.value, l, r)

\* variant of move_negations_inward: a negation of a negation is kept
RECURSIVE move_negations_keep_double(_)
move_negations_keep_double(node) ==
  IF node = None THEN None
  ELSE IF node.value = NOT
  THEN LET child == node.right
       IN IF child.value = OR
          THEN Binary(AND, move_negations_keep_double(Not(child.left)),
                           move_negations_keep_double(Not(child.right)))
          ELSE IF child.value = AND
          THEN Binary(OR, move_negations_keep_double(Not(child.left)),
                          move_negations_keep_double(Not(child.right)))
          ELSE Not(move_negations_keep_double(child))
  ELSE Binary(node.value, move_negations_keep_double(node.left),
                          move_negations_keep_double(node.right))

\* child = node.right: parse_tree and the functions of this phase give every
\* negation its operand as the right child
RECURSIVE move_negations_inward(_)
move_negations_inward(node) ==
  IF node = None THEN None
  ELSE IF node.value = NOT
  THEN LET child == node.right
       IN IF child.value = NOT THEN move_negations_inward(child.right)
          ELSE IF child.value = OR
          THEN Binary(AND, move_negations_inward(Not(child.left)),
                           move_negations_inward(Not(child.right)))
          ELSE IF child.value = AND
          THEN Binary(OR, move_negations_inward(Not(child.left)),
                          move_negations_inward(Not(child.right)))
          ELSE node
  ELSE Binary(node.value, move_negations_inward(node.left),
                          move_negations_inward(node.right))

RECURSIVE distribute_or_over_and(_)
distribute_or_over_and(node) ==
  IF node = None THEN None
  ELSE LET left == distribute_or_over_and(node.left)
           right == distribute_or_over_and(node.right)
           or(a, b) == distribute_or_over_and(Binary(OR, a, b))
       IN IF node.value /= OR THEN Binary(node.value, left, right)
          \* Case 1: (A & B) | (C & D)
          ELSE IF left.value = AND /\ right.value = AND
          THEN Binary(AND,
                      Binary(AND, or(left.left, right.left), or(left.left, right.right)),
                      Binary(AND, or(left.right, right.left), or(left.right, right.right)))
          \* Case 2: A | (B & C)
          ELSE IF right.value = AND
          THEN Binary(AND, or(left, right.left), or(left, right.right))
          \* Case 3: (A & B) | C
          ELSE IF left.value = AND
          THEN Binary(AND, or(left.left, right), or(left.right, right))
          ELSE Binary(OR, left, right)

convert_to_cnf(root) ==
  IF root = None THEN None
  ELSE distribute_or_over_and(move_negations_inward(eliminate_implications(root)))

\* Phase2.precedence: precedences.get(operator, 6)
precedence(operator) ==
  CASE operator = NOT -> 1
    [] operator = AND -> 2
    [] operator = OR -> 3
    [] operator = IMPLIES -> 4
    [] operator = IFF -> 5
    [] OTHER -> 6

needs_parentheses(child, parent, is_left) ==
  IF isalpha(child.value) \/ child.value = NOT THEN FALSE
  ELSE IF precedence(child.value) > precedence(parent.value) THEN TRUE
  ELSE IF precedence(child.value) = precedence(parent.value)
  THEN ~is_left /\ parent.value \in {IMPLIES, IFF}
  ELSE FALSE

\* the string is a sequence of one-character strings
RECURSIVE tree_to_string(_)
tree_to_string(node) ==
  IF node = None THEN <<>>
  ELSE IF isalpha(node.value) THEN <<node.value>>
  ELSE IF node.value = NOT
  THEN LET right_str == tree_to_string(node.right)
       IN IF right_str = <<>> THEN <<>>
          ELSE IF node.right.value \in {AND, OR, IMPLIES, IFF}
          THEN <<NOT, LPAREN>> \o right_str \o <<RPAREN>>
          ELSE <<NOT>> \o right_str
  ELSE LET left_str == tree_to_string(node.left)
           right_str == tree_to_string(node.right)
           in_parens(s) == <<LPAREN>> \o s \o <<RPAREN>>
       IN IF left_str = <<>> /\ right_str = <<>> THEN <<>>
          ELSE IF left_str = <<>> THEN right_str
          ELSE IF right_str = <<>> THEN left_str
          ELSE (IF needs_parentheses(node.left, node, TRUE)
                THEN in_parens(left_str) ELSE left_str)
               \o <<SPACE, node.value, SPACE>>
               \o (IF needs_parentheses(node.right, node, FALSE)
                   THEN in_parens(right_str) ELSE right_str)

(***************************************************************************)
(* Runs of Phase1.process and Phase2.process, and the round trip of a      *)
(* formula text through parse_tree and tree_to_string.  input_data is the  *)
(* formula text; result holds the value the run has computed so far.       *)
(***************************************************************************)
VALID_FORMULA == "Valid Formula"
INVALID_FORMULA == "Invalid Formula"

InitFormula(texts, at) ==
  /\ input_data \in texts
  /\ pc = at
  /\ lines = <<>>
  /\ line_map = <<>>
  /\ valid_lines = {}
  /\ scope_stack = <<{}>>
  /\ scope_assumptions = <<>>
  /\ current_scope_level = 0
  /\ pos = 1
  /\ expected_node = None
  /\ exception = ""
  /\ result = NoResult

Untouched ==
  UNCHANGED <<input_data, lines, line_map, valid_lines, scope_stack, scope_assumptions,
              current_scope_level, pos, expected_node>>

\* Phase1.process, line 178: if self.is_valid(input_data)
IsValid ==
  /\ pc = "is_valid"
  /\ IF is_valid(input_data)
     THEN pc' = "parse_tree" /\ UNCHANGED result
     ELSE Return([msg |-> INVALID_FORMULA, content |-> <<>>])
  /\ UNCHANGED exception
  /\ Untouched

\* Phase1.process, lines 179-181; an exception of parse_tree is not caught
ParseTree ==
  /\ pc = "parse_tree"
  /\ LET parsetree == parse_tree(input_data)
     IN IF parsetree.ok
        THEN /\ Return([msg |-> VALID_FORMULA, content |-> preorder(parsetree.tree, 0)])
             /\ UNCHANGED exception
        ELSE /\ Return([msg |-> UNCAUGHT, content |-> <<>>])
             /\ exception' = "IndexError"
  /\ Untouched

NextPhase1 == IsValid \/ ParseTree

\* Phase2.process, line 27: tree = Phase1().parse_tree(input_data); where
\* parse_tree raises, the run ends with the exception and no value
Phase2Parse ==
  /\ pc = "phase2"
  /\ LET tree == parse_tree(input_data)
     IN IF tree.ok
        THEN /\ result' = tree.tree
             /\ pc' = "tree"
             /\ UNCHANGED exception
        ELSE /\ Return(None)
             /\ exception' = "IndexError"
  /\ Untouched

\* Phase2.process, line 30: cnf_tree = self.convert_to_cnf(tree)
ConvertToCnf ==
  /\ pc = "tree"
  /\ result' = convert_to_cnf(result)
  /\ pc' = "cnf_tree"
  /\ UNCHANGED exception
  /\ Untouched

\* Phase2.process, line 33: return self.tree_to_string(cnf_tree)
TreeToString(at, to) ==
  /\ pc = at
  /\ result' = tree_to_string(result)
  /\ pc' = to
  /\ UNCHANGED exception
  /\ Untouched

NextPhase2 == Phase2Parse \/ ConvertToCnf \/ TreeToString("cnf_tree", "done")

\* the printed text is parsed again
Reparse ==
  /\ pc = "printed"
  /\ LET tree == parse_tree(result)
     IN IF tree.ok
        THEN /\ Return(tree.tree)
             /\ UNCHANGED exception
        ELSE /\ Return(None)
             /\ exception' = "IndexError"
  /\ Untouched

NextRoundTrip == Phase2Parse \/ TreeToString("tree", "printed") \/ Reparse

(***************************************************************************)
(* Formula texts: every sequence of at most MaxTokens tokens, and the      *)
(* texts of the formulas with at most MaxOps connectives, written without  *)
(* parentheses and with parentheses around every compound operand.         *)
(***************************************************************************)
MaxTokens == 5

MaxOps == 2

MaxConnectives == 3

ScannerAlphabet == {"p", NOT, AND, LPAREN, RPAREN}

TokenTexts == UNION {[1..n -> ScannerAlphabet] : n \in 0..MaxTokens}

\* the formulas with exactly n connectives
RECURSIVE FormulasOf(_, _, _)
FormulasOf(atoms, ops, n) ==
  IF n = 0 THEN {Node(a) : a \in atoms}
  ELSE {Not(x) : x \in FormulasOf(atoms, ops, n - 1)}
       \cup UNION { {Binary(op, l, r) : op \in ops,
                                        l \in FormulasOf(atoms, ops, i),
                                        r \in FormulasOf(atoms, ops, n - 1 - i)} :
                    i \in 0..(n - 1) }

Formulas(atoms, ops, max) == UNION {FormulasOf(atoms, ops, n) : n \in 0..max}

IsAtom(x) == x.left = None /\ x.right = None

\* the text of a formula; parens: every compound operand is put in parentheses
RECURSIVE Write(_, _)
Write(x, parens) ==
  LET operand(y) == IF parens /\ ~IsAtom(y) THEN <<LPAREN>> \o Write(y, parens) \o <<RPAREN>>
                    ELSE Write(y, parens)
  IN IF IsAtom(x) THEN <<x.value>>
     ELSE IF x.value = NOT THEN <<NOT>> \o operand(x.right)
     ELSE operand(x.left) \o <<x.value>> \o operand(x.right)

FormulaTexts ==
  {Write(x, parens) : x \in Formulas({"p", "q"}, {AND, OR, IMPLIES}, MaxOps),
                      parens \in BOOLEAN}

CnfTexts == {Write(x, TRUE) : x \in Formulas({"p"}, BinaryOperators, MaxConnectives)}

InitPhase1 == InitFormula(TokenTexts \cup FormulaTexts, "is_valid")

SpecPhase1 == InitPhase1 /\ [][NextPhase1]_vars

InitPhase2 == InitFormula(CnfTexts, "phase2")

SpecPhase2 == InitPhase2 /\ [][NextPhase2]_vars

InitRoundTrip == InitFormula(FormulaTexts, "phase2")

SpecRoundTrip == InitRoundTrip /\ [][NextRoundTrip]_vars

(***************************************************************************)
(* C25  Round trip: for every well-formed formula text, printing its parse *)
(* tree with tree_to_string and parsing the printed text again with        *)
(* parse_tree succeeds and yields a tree structurally equal to the first   *)
(* one (equality commutative for "&" and "|" only), right-nested           *)
(* conjunctions such as a&(b&c) and nested negations included.             *)
(***************************************************************************)
C25_RoundTrip ==
  (pc = "done" /\ is_valid(input_data)) =>
    /\ exception = ""
    /\ nodes_equal_phase5(result, parse_tree(input_data).tree)

(***************************************************************************)
(* C26  The scanner is_valid accepts a token sequence if and only if the   *)
(* grammar F ::= letter | ~F | (F) | F op F generates it.                  *)
(***************************************************************************)
RECURSIVE Generated(_)
Generated(s) ==
  \/ Len(s) = 1 /\ isalpha(s[1])
  \/ Len(s) >= 2 /\ s[1] = NOT /\ Generated(Tail(s))
  \/ Len(s) >= 3 /\ s[1] = LPAREN /\ s[Len(s)] = RPAREN /\ Generated(SubSeq(s, 2, Len(s) - 1))
  \/ \E k \in 2..(Len(s) - 1) :
       /\ s[k] \in BinaryOperators
       /\ Generated(SubSeq(s, 1, k - 1))
       /\ Generated(SubSeq(s, k + 1, Len(s)))

C26_ScannerIsGrammar ==
  /\ pc = "parse_tree" => Generated(tokenize(input_data))
  /\ (pc = "done" /\ result.msg = INVALID_FORMULA) => ~Generated(tokenize(input_data))

\* a text with as many "(" as ")" whose parenthesis closes before it opens has
\* been rejected, and in another run a text with a pair of parentheses around
\* a negation has been accepted
C26_Witness ==
  \/ /\ pc = "done" /\ result.msg = INVALID_FORMULA
     /\ input_data = <<"p", RPAREN, AND, LPAREN, "p">>
  \/ /\ pc = "parse_tree"
     /\ input_data = <<NOT, LPAREN, NOT, "p", RPAREN>>

(***************************************************************************)
(* C27  parse_tree builds the tree by precedence ~ < & < | < > < = (lower  *)
(* binds tighter): a tighter operator becomes a child of a neighbouring    *)
(* looser one, two binary operators of equal rank group to the left,       *)
(* parentheses override both, and every binary node keeps source order.    *)
(***************************************************************************)
Rank(op) ==
  CASE op = AND -> 2
    [] op = OR -> 3
    [] op = IMPLIES -> 4
    [] op = IFF -> 5

\* positions of the binary operators of s that stand outside every parenthesis
TopLevel(s) ==
  {k \in 1..Len(s) :
     /\ s[k] \in BinaryOperators
     /\ Cardinality({i \in 1..k : s[i] = LPAREN}) = Cardinality({i \in 1..k : s[i] = RPAREN})}

\* the operator the text splits at: the loosest one, the rightmost of these
Principal(s) ==
  CHOOSE k \in TopLevel(s) :
    \A j \in TopLevel(s) : Rank(s[j]) < Rank(s[k]) \/ (Rank(s[j]) = Rank(s[k]) /\ j <= k)

\* the tree a well-formed text stands for
RECURSIVE Reading(_)
Reading(s) ==
  IF s = <<>> THEN None
  ELSE IF TopLevel(s) /= {}
  THEN Binary(s[Principal(s)], Reading(SubSeq(s, 1, Principal(s) - 1)),
              Reading(SubSeq(s, Principal(s) + 1, Len(s))))
  ELSE IF s[1] = NOT THEN Not(Reading(Tail(s)))
  ELSE IF s[1] = LPAREN THEN Reading(SubSeq(s, 2, Len(s) - 1))
  ELSE Node(s[1])

C27_PrecedenceReading ==
  (pc = "done" /\ result.msg /= INVALID_FORMULA) =>
    parse_tree(input_data) = [ok |-> TRUE, tree |-> Reading(tokenize(input_data))]

(***************************************************************************)
(* C30  For every formula tree built from atoms, "~", "&", "|", ">" and    *)
(* "=", convert_to_cnf returns a tree in conjunctive normal form: it       *)
(* contains no ">" and no "=", every "~" is applied to an atom, and no "&" *)
(* occurs beneath a "|".                                                   *)
(***************************************************************************)
RECURSIVE Subtrees(_)
Subtrees(x) == IF x = None THEN {} ELSE {x} \cup Subtrees(x.left) \cup Subtrees(x.right)

IsCnf(x) ==
  /\ \A y \in Subtrees(x) : y.value \notin {IMPLIES, IFF}
  /\ \A y \in Subtrees(x) : y.value = NOT => IsAtom(y.right) /\ isalpha(y.right.value)
  /\ \A y \in Subtrees(x) : y.value = OR => \A z \in Subtrees(y) : z.value /= AND

C30_CnfShape == pc = "cnf_tree" => IsCnf(result)

\* the conversion has been applied to a disjunction of two formulas that each
\* become a conjunction, and in another run to a negated negation
C30_Witness ==
  /\ pc = "cnf_tree"
  /\ LET tree == parse_tree(input_data).tree
     IN \/ /\ tree.value = OR
           /\ tree.left.value \in {AND, IFF} /\ tree.right.value \in {AND, IFF}
           /\ result.value = AND
        \/ /\ tree.value = NOT /\ tree.right.value = NOT /\ tree.right.right.value = IFF

(***************************************************************************)
(* Phase3.process (phase3/logic.py 26-111): the Horn solver.  input_data   *)
(* is the formula text without spaces, a sequence of one-character         *)
(* strings; a variable, a clause part and a clause are such sequences too. *)
(***************************************************************************)
\* str.strip('()')
RECURSIVE StripParens(_)
StripParens(s) ==
  IF s = <<>> THEN s
  ELSE IF Head(s) \in {LPAREN, RPAREN} THEN StripParens(Tail(s))
  ELSE IF Last(s) \in {LPAREN, RPAREN} THEN StripParens(Front(s))
  ELSE s

\* lines 37-50: the text is cut at every "&" that follows a position where
\* all parentheses are closed; i counts from 1
RECURSIVE SplitClauses(_, _, _, _, _)
SplitClauses(s, i, current, open_parens, clauses_list) ==
  IF i > Len(s) THEN clauses_list
  ELSE LET c == s[i]
           open == IF c = LPAREN THEN open_parens + 1
                   ELSE IF c = RPAREN THEN open_parens - 1
                   ELSE open_parens
       IN IF open = 0 /\ ((i + 1 <= Len(s) /\ s[i + 1] = AND) \/ i = Len(s))
          THEN SplitClauses(s, i + 2, <<>>, open,
                            Append(clauses_list, StripParens(Append(current, c))))
          ELSE SplitClauses(s, i + 1, Append(current, c), open, clauses_list)

\* str.split(sep) for a separator of one character
RECURSIVE split(_, _)
split(s, sep) ==
  IF \E i \in 1..Len(s) : s[i] = sep
  THEN LET i == CHOOSE j \in 1..Len(s) : s[j] = sep /\ \A k \in 1..(j - 1) : s[k] /= sep
       IN <<SubSeq(s, 1, i - 1)>> \o split(SubSeq(s, i + 1, Len(s)), sep)
  ELSE <<s>>

\* str.isalpha(): not empty, letters only
str_isalpha(s) == s /= <<>> /\ \A i \in 1..Len(s) : isalpha(s[i])

\* lines 53-78 for one clause: the pair (antecedents, consequent), or ok = FALSE
\* where ValueError is raised
ParseClause(clause) ==
  LET parts == split(clause, IMPLIES)
      consequent == parts[2]
      antecedents == SelectSeq(split(parts[1], AND), LAMBDA a : a /= <<TOP>>)
      none == [ok |-> FALSE, antecedents |-> <<>>, consequent |-> <<>>]
  IN IF \A i \in 1..Len(clause) : clause[i] \notin {AND, IMPLIES} THEN none
     ELSE IF Len(parts) /= 2 THEN none
     ELSE IF \E i \in 1..Len(antecedents) :
               antecedents[i] /= <<CONTRADICTION>> /\ ~str_isalpha(antecedents[i])
     THEN none
     ELSE IF consequent /= <<CONTRADICTION>> /\ consequent /= <<TOP>> /\ ~str_isalpha(consequent)
     THEN none
     ELSE [ok |-> TRUE, antecedents |-> antecedents, consequent |-> consequent]

\* lines 29-78
ParseClauses(text) ==
  LET clauses_list == SplitClauses(text, 1, <<>>, 0, <<>>)
  IN [ok |-> \A i \in 1..Len(clauses_list) : ParseClause(clauses_list[i]).ok,
      clauses |-> [i \in 1..Len(clauses_list) |-> ParseClause(clauses_list[i])]]

\* variant of Fires: a clause fires again although its consequent is in true_vars
FiresAgain(clause, true_vars) ==
  \A i \in 1..Len(clause.antecedents) :
    clause.antecedents[i] \in true_vars \/ clause.antecedents[i] = <<TOP>>

\* lines 87-89: the clause adds its consequent
Fires(clause, true_vars) ==
  /\ clause.consequent \notin true_vars
  /\ \A i \in 1..Len(clause.antecedents) :
       clause.antecedents[i] \in true_vars \/ clause.antecedents[i] = <<TOP>>

\* lines 86-94: one pass of the for loop, from clause k on
RECURSIVE ForClauses(_, _, _)
ForClauses(clauses, k, st) ==
  IF k > Len(clauses) THEN st
  ELSE IF Fires(clauses[k], st.true_vars)
  THEN ForClauses(clauses, k + 1,
                  [true_vars |-> st.true_vars \cup {clauses[k].consequent},
                   changed |-> TRUE,
                   is_satisfiable |->
                     st.is_satisfiable /\ clauses[k].consequent /= <<CONTRADICTION>>])
  ELSE ForClauses(clauses, k + 1, st)

\* lines 84-94: while changed
RECURSIVE WhileChanged(_, _)
WhileChanged(clauses, st) ==
  LET after == ForClauses(clauses, 1, [st EXCEPT !.changed = FALSE])
  IN IF after.changed THEN WhileChanged(clauses, after) ELSE after

SATISFIABLE == "Satisfiable"
UNSATISFIABLE == "Unsatisfiable"
INVALID_HORN == "Invalid Horn Formula:"

\* lines 29-78; where ValueError is raised the except clause of line 108 returns
Phase3Parse ==
  /\ pc = "phase3"
  /\ LET parsed == ParseClauses(input_data)
     IN IF parsed.ok
        THEN /\ result' = [clauses |-> parsed.clauses]
             /\ pc' = "forward_chaining"
             /\ UNCHANGED exception
        ELSE /\ Return([msg |-> INVALID_HORN, true_vars |-> {}])
             /\ exception' = "ValueError"
  /\ Untouched

\* lines 80-106
ForwardChaining ==
  /\ pc = "forward_chaining"
  /\ LET st == WhileChanged(result.clauses, [true_vars |-> {}, changed |-> TRUE,
                                              is_satisfiable |-> TRUE])
     IN IF st.is_satisfiable
        THEN Return([msg |-> SATISFIABLE, true_vars |-> st.true_vars])
        ELSE Return([msg |-> UNSATISFIABLE, true_vars |-> {}])
  /\ UNCHANGED exception
  /\ Untouched

NextPhase3 == Phase3Parse \/ ForwardChaining

(***************************************************************************)
(* Horn formulas: at most MaxClauses clauses of the pool, each in          *)
(* parentheses, joined by "&".                                             *)
(***************************************************************************)
MaxClauses == 3

HornClauses ==
  { <<TOP, IMPLIES, "p">>,
    <<"p", IMPLIES, "q">>,
    <<"p", AND, "q", IMPLIES, "r">>,
    <<"r", IMPLIES, CONTRADICTION>>,
    <<"q", IMPLIES, TOP>>,
    <<TOP, AND, "s", IMPLIES, "p">>,
    <<CONTRADICTION, IMPLIES, "s">>,
    <<TOP, IMPLIES, TOP>>,
    <<"p", IMPLIES>> }

RECURSIVE Conjoin(_)
Conjoin(cs) ==
  IF cs = <<>> THEN <<>>
  ELSE <<LPAREN>> \o Head(cs) \o <<RPAREN>>
       \o (IF Len(cs) > 1 THEN <<AND>> \o Conjoin(Tail(cs)) ELSE <<>>)

HornTexts == {Conjoin(cs) : cs \in UNION {[1..n -> HornClauses] : n \in 0..MaxClauses}}

InitPhase3 == InitFormula(HornTexts, "phase3")

SpecPhase3 == InitPhase3 /\ [][NextPhase3]_vars

(***************************************************************************)
(* C29  For every syntactically valid Horn formula, the solver reports     *)
(* Unsatisfiable if and only if "_" is derivable by forward chaining from  *)
(* the clauses, and otherwise reports Satisfiable with exactly the least   *)
(* set of atoms closed under the clauses, whatever the order in which the  *)
(* clauses are written.                                                    *)
(***************************************************************************)
HornClausesOf(text) == ParseClauses(text).clauses

Body(clause) == {clause.antecedents[i] : i \in 1..Len(clause.antecedents)}

Atoms(text) ==
  UNION {Body(HornClausesOf(text)[i]) \cup {HornClausesOf(text)[i].consequent} :
           i \in 1..Len(HornClausesOf(text))} \ {<<TOP>>, <<CONTRADICTION>>}

\* every clause whose antecedents are all in S, or "^", has its consequent in
\* S, unless the consequent is "^" or "_"
ClosedUnder(text, S) ==
  \A i \in 1..Len(HornClausesOf(text)) :
    LET clause == HornClausesOf(text)[i]
    IN (Body(clause) \subseteq S /\ clause.consequent \in Atoms(text))
         => clause.consequent \in S

LeastModel(text) ==
  {a \in Atoms(text) : \A S \in SUBSET Atoms(text) : ClosedUnder(text, S) => a \in S}

BottomDerivable(text) ==
  \E i \in 1..Len(HornClausesOf(text)) :
    /\ HornClausesOf(text)[i].consequent = <<CONTRADICTION>>
    /\ Body(HornClausesOf(text)[i]) \subseteq LeastModel(text)

C29_HornLeastModel ==
  (pc = "done" /\ result.msg /= INVALID_HORN) =>
    IF BottomDerivable(input_data) THEN result.msg = UNSATISFIABLE
    ELSE result = [msg |-> SATISFIABLE, true_vars |-> LeastModel(input_data)]

(***************************************************************************)
(* C32  For every text accepted by is_valid, parse_tree completes without  *)
(* error and returns a tree, so Phase1.process returns "Valid Formula"     *)
(* followed by the tree and never raises; texts with consecutive negations *)
(* written without parentheses, such as ~~p, are among them.               *)
(***************************************************************************)
C32_ValidTextsParse ==
  (pc = "done" /\ is_valid(input_data)) =>
    /\ exception = ""
    /\ parse_tree(input_data).ok
    /\ result = [msg |-> VALID_FORMULA,
                 content |-> preorder(parse_tree(input_data).tree, 0)]

(***************************************************************************)
(* C38  Whenever the Horn solver reports Satisfiable, the reported         *)
(* assignment contains only propositional variables that occur in the      *)
(* formula: never "^" or "_", also when a clause with the consequent "^"   *)
(* has all its antecedents true (for example ^>^).                         *)
(***************************************************************************)
C38_OnlyVariablesReported ==
  (pc = "done" /\ result.msg = SATISFIABLE) =>
    /\ <<TOP>> \notin result.true_vars
    /\ <<CONTRADICTION>> \notin result.true_vars
    /\ result.true_vars \subseteq Atoms(input_data)

(***************************************************************************)
(* The forward-chaining loop of Phase3.process, one sweep of the for loop  *)
(* at a time (phase3/logic.py 80-106), started from the clause list of     *)
(* every accepted formula.  At pc = "while_changed" result holds the       *)
(* clauses and the loop's variables.                                       *)
(***************************************************************************)
\* lines 81-82
StartChaining ==
  /\ pc = "forward_chaining"
  /\ result' = [clauses |-> result.clauses, true_vars |-> {}, changed |-> TRUE,
                is_satisfiable |-> TRUE]
  /\ pc' = "while_changed"
  /\ UNCHANGED exception
  /\ Untouched

\* lines 84-94: the loop condition holds; changed = False, then the for loop
Sweep ==
  /\ pc = "while_changed"
  /\ result.changed
  /\ LET after == ForClauses(result.clauses, 1,
                             [true_vars |-> result.true_vars, changed |-> FALSE,
                              is_satisfiable |-> result.is_satisfiable])
     IN result' = [clauses |-> result.clauses, true_vars |-> after.true_vars,
                   changed |-> after.changed, is_satisfiable |-> after.is_satisfiable]
  /\ UNCHANGED <<pc, exception>>
  /\ Untouched

\* lines 96-106: the loop condition fails
Report ==
  /\ pc = "while_changed"
  /\ ~result.changed
  /\ IF result.is_satisfiable
     THEN Return([msg |-> SATISFIABLE, true_vars |-> result.true_vars])
     ELSE Return([msg |-> UNSATISFIABLE, true_vars |-> {}])
  /\ UNCHANGED exception
  /\ Untouched

NextChaining == StartChaining \/ Sweep \/ Report

\* line 80 is reached with the clauses of a formula that lines 29-78 accepted
InitChaining ==
  \E text \in HornTexts :
    /\ ParseClauses(text).ok
    /\ input_data = text
    /\ pc = "forward_chaining"
    /\ result = [clauses |-> ParseClauses(text).clauses]
    /\ lines = <<>>
    /\ line_map = <<>>
    /\ valid_lines = {}
    /\ scope_stack = <<{}>>
    /\ scope_assumptions = <<>>
    /\ current_scope_level = 0
    /\ pos = 1
    /\ expected_node = None
    /\ exception = ""

\* the interpreter always runs the next statement of process
SpecChaining == InitChaining /\ [][NextChaining]_vars /\ WF_vars(NextChaining)

(***************************************************************************)
(* C37  The forward-chaining loop terminates for every finite clause list: *)
(* every sweep that sets changed adds at least one new symbol to           *)
(* true_vars, true_vars only grows and stays within the set of clause      *)
(* consequents, and the loop exits after the first sweep that adds         *)
(* nothing.                                                                *)
(***************************************************************************)
Consequents(clauses) == {clauses[i].consequent : i \in 1..Len(clauses)}

SweepGrows ==
  Sweep => /\ result.true_vars \subseteq result'.true_vars
           /\ result'.changed <=> result'.true_vars /= result.true_vars

C37_ChainingTerminates ==
  /\ <>(pc = "done")
  /\ [][SweepGrows]_vars
  /\ [](pc = "while_changed" => result.true_vars \subseteq Consequents(result.clauses))
  /\ []((pc = "while_changed" /\ ~result.changed) => ~ENABLED Sweep)

\* two sweeps added a symbol each and a third one added nothing
C37_Witness ==
  /\ pc = "while_changed"
  /\ ~result.changed
  /\ Len(result.clauses) = 2
  /\ result.clauses[1].antecedents = <<<<"p">>>>
  /\ result.clauses[1].consequent = <<"q">>
  /\ result.true_vars = {<<"p">>, <<"q">>}

(***************************************************************************)
(* Phase2.convert_to_cnf, one pass at a time (phase2/logic.py 51-62), on   *)
(* the parse trees of the formulas over two atoms with at most MaxOps      *)
(* connectives.                                                            *)
(***************************************************************************)
\* line 55
EliminateImplications ==
  /\ pc = "tree"
  /\ result' = eliminate_implications(result)
  /\ pc' = "no_implications"
  /\ UNCHANGED exception
  /\ Untouched

\* line 58
MoveNegationsInward ==
  /\ pc = "no_implications"
  /\ result' = move_negations_inward(result)
  /\ pc' = "negations_inward"
  /\ UNCHANGED exception
  /\ Untouched

\* line 61
DistributeOrOverAnd ==
  /\ pc = "negations_inward"
  /\ result' = distribute_or_over_and(result)
  /\ pc' = "cnf_tree"
  /\ UNCHANGED exception
  /\ Untouched

NextPasses == Phase2Parse \/ EliminateImplications \/ MoveNegationsInward
              \/ DistributeOrOverAnd

MeaningAtoms == {"p", "q"}

MeaningTexts == {Write(x, TRUE) : x \in Formulas(MeaningAtoms, BinaryOperators, MaxOps)}

InitPasses == InitFormula(MeaningTexts, "phase2")

SpecPasses == InitPasses /\ [][NextPasses]_vars

(***************************************************************************)
(* C36  convert_to_cnf preserves meaning: for every formula over a bounded *)
(* set of atoms and every truth assignment, the returned tree has the      *)
(* truth value of the input formula, and so has the tree after each of the *)
(* three passes eliminate_implications, move_negations_inward and          *)
(* distribute_or_over_and.                                                 *)
(***************************************************************************)
\* the truth value of a formula tree where exactly the atoms of true_atoms hold
RECURSIVE Eval(_, _)
Eval(x, true_atoms) ==
  IF x.value = NOT THEN ~Eval(x.right, true_atoms)
  ELSE IF x.value = AND THEN Eval(x.left, true_atoms) /\ Eval(x.right, true_atoms)
  ELSE IF x.value = OR THEN Eval(x.left, true_atoms) \/ Eval(x.right, true_atoms)
  ELSE IF x.value = IMPLIES THEN Eval(x.left, true_atoms) => Eval(x.right, true_atoms)
  ELSE IF x.value = IFF THEN Eval(x.left, true_atoms) <=> Eval(x.right, true_atoms)
  ELSE x.value \in true_atoms

SameMeaning(x, y) ==
  \A true_atoms \in SUBSET MeaningAtoms : Eval(x, true_atoms) <=> Eval(y, true_atoms)

C36_CnfPreservesMeaning ==
  /\ pc \in {"no_implications", "negations_inward", "cnf_tree"} =>
       SameMeaning(result, parse_tree(input_data).tree)
  /\ pc = "cnf_tree" => result = convert_to_cnf(parse_tree(input_data).tree)

\* the three passes have all rewritten the tree: a negated equivalence became
\* a conjunction of disjunctions
C36_Witness ==
  /\ pc = "cnf_tree"
  /\ LET tree == parse_tree(input_data).tree
     IN /\ tree.value = NOT
        /\ tree.right.value = IFF
        /\ eliminate_implications(tree) /= tree
        /\ move_negations_inward(eliminate_implications(tree)) /= eliminate_implications(tree)
        /\ result /= move_negations_inward(eliminate_implications(tree))
        /\ result.value = AND

(***************************************************************************)
(* Phase4.process (phase4/logic.py 224-340).  input_data is the text as    *)
(* the sequence of its lines; a line is a sequence of characters in which  *)
(* the one element FOUR_SPACES stands for a run of four spaces.            *)
(***************************************************************************)
FOUR_SPACES == "    "

COMMA == ","

RULE_CANNOT_BE_APPLIED == "Rule Cannot Be Applied"

\* str.lstrip(), str.rstrip(), str.strip()
RECURSIVE lstrip(_)
lstrip(s) ==
  IF s /= <<>> /\ Head(s) \in {SPACE, FOUR_SPACES} THEN lstrip(Tail(s)) ELSE s

RECURSIVE rstrip(_)
rstrip(s) ==
  IF s /= <<>> /\ Last(s) \in {SPACE, FOUR_SPACES} THEN rstrip(Front(s)) ELSE s

strip(s) == rstrip(lstrip(s))

\* line 232: input_data.strip().split('\n'); the empty text is one empty line
RECURSIVE StripLines(_)
StripLines(ls) ==
  IF ls = <<>> THEN <<<<>>>>
  ELSE IF strip(Head(ls)) = <<>> THEN StripLines(Tail(ls))
  ELSE IF strip(Last(ls)) = <<>> THEN StripLines(Front(ls))
  ELSE IF Len(ls) = 1 THEN <<strip(ls[1])>>
  ELSE <<lstrip(Head(ls))>> \o SubSeq(ls, 2, Len(ls) - 1) \o <<rstrip(Last(ls))>>

\* lines 239-253 for one line: skipped, a LogicLine, or the exception raised
ParseLogicLine(line) ==
  LET parts == split(line, FOUR_SPACES)
      none == [skip |-> FALSE, exception |-> "", line_number |-> NoLineNumber,
               formula |-> None]
  IN IF strip(line) = <<>> THEN [none EXCEPT !.skip = TRUE]
     ELSE IF Len(parts) /= 2 THEN [none EXCEPT !.exception = "ValueError"]
     ELSE IF ~int(strip(parts[1])).ok THEN [none EXCEPT !.exception = "ValueError"]
     ELSE IF ~parse_tree(parts[2]).ok THEN [none EXCEPT !.exception = "IndexError"]
     ELSE [none EXCEPT !.line_number = int(strip(parts[1])).val,
                       !.formula = parse_tree(parts[2]).tree]

\* lines 230-267: exception is the one raised first, "" where the call returns
parse_input(input_data_text) ==
  LET text_lines == StripLines(input_data_text)
      parsed == [i \in 1..(Len(text_lines) - 1) |-> ParseLogicLine(text_lines[i])]
      failed == {i \in DOMAIN parsed : parsed[i].exception /= ""}
      rule_parts == split(Last(text_lines), COMMA)
      numbers == [i \in 1..(Len(rule_parts) - 1) |-> int(strip(rule_parts[i + 1]))]
  IN [exception |->
        IF failed /= {}
        THEN parsed[CHOOSE i \in failed : \A j \in failed : i <= j].exception
        ELSE IF \E i \in DOMAIN numbers : ~numbers[i].ok THEN "ValueError"
        ELSE "",
      logic_lines |-> SelectSeq(parsed, LAMBDA l : ~l.skip),
      rule_name |-> strip(rule_parts[1]),
      line_numbers |-> [i \in DOMAIN numbers |-> numbers[i].val]]

\* lines 282-291: the key of logic_rule_map that the text is, "" where it is none
logic_rule_map(rule_name) ==
  CASE rule_name = <<AND, "i">> -> "&i"
    [] rule_name = <<AND, "e", "1">> -> "&e1"
    [] rule_name = <<AND, "e", "2">> -> "&e2"
    [] rule_name = <<IMPLIES, "e">> -> ">e"
    [] rule_name = <<NOT, "e">> -> "~e"
    [] rule_name = <<NOT, NOT, "e">> -> "~~e"
    [] rule_name = <<"M", "T">> -> "MT"
    [] rule_name = <<NOT, NOT, "i">> -> "~~i"
    [] OTHER -> ""

\* line 329: a later line with the same number replaces an earlier one
FormulaMap(logic_lines) ==
  [n \in {logic_lines[i].line_number : i \in 1..Len(logic_lines)} |->
     logic_lines[CHOOSE i \in 1..Len(logic_lines) :
                   /\ logic_lines[i].line_number = n
                   /\ \A j \in (i + 1)..Len(logic_lines) :
                        logic_lines[j].line_number /= n].formula]

\* lines 326-340: ok = FALSE where ValueError is raised
get_formulas_for_lines(logic_lines, line_numbers) ==
  LET line_map4 == FormulaMap(logic_lines)
  IN IF \E i \in 1..Len(line_numbers) : line_numbers[i] \notin DOMAIN line_map4
     THEN [ok |-> FALSE, formulas |-> <<>>]
     ELSE [ok |-> TRUE,
           formulas |-> [i \in 1..Len(line_numbers) |-> line_map4[line_numbers[i]]]]

\* variant of Catches: only the two exceptions named first are caught
CatchesNamedOnly(exc) == exc \in {"ValueError", "LogicRuleError"}

\* line 323: except (ValueError, LogicRuleError, Exception)
Catches(exc) == exc \in {"ValueError", "LogicRuleError", "IndexError", "AttributeError"}

\* lines 323-324, and the exception that leaves process where none matches
Except4(exc) ==
  /\ exception' = exc
  /\ IF Catches(exc)
     THEN Return([msg |-> RULE_CANNOT_BE_APPLIED, formula |-> <<>>])
     ELSE Return([msg |-> UNCAUGHT, formula |-> <<>>])

\* line 306
ParseInput ==
  /\ pc = "phase4"
  /\ LET parsed == parse_input(input_data)
     IN IF parsed.exception /= "" THEN Except4(parsed.exception)
        ELSE /\ result' = [logic_lines |-> parsed.logic_lines,
                           rule_name |-> parsed.rule_name,
                           line_numbers |-> parsed.line_numbers]
             /\ pc' = "rule_class"
             /\ UNCHANGED exception
  /\ Untouched

\* lines 309-311
GetRuleClass ==
  /\ pc = "rule_class"
  /\ IF logic_rule_map(result.rule_name) = ""
     THEN Return([msg |-> RULE_CANNOT_BE_APPLIED, formula |-> <<>>])
     ELSE /\ result' = result
          /\ pc' = "formulas"
  /\ UNCHANGED exception
  /\ Untouched

\* line 314
GetFormulas ==
  /\ pc = "formulas"
  /\ LET got == get_formulas_for_lines(result.logic_lines, result.line_numbers)
     IN IF ~got.ok THEN Except4("ValueError")
        ELSE /\ result' = [rule_name |-> result.rule_name, formulas |-> got.formulas]
             /\ pc' = "rule"
             /\ UNCHANGED exception
  /\ Untouched

\* lines 317-321
ApplyAndPrint ==
  /\ pc = "rule"
  /\ LET applied == ApplyRule(logic_rule_map(result.rule_name), result.formulas)
     IN IF ~applied.ok THEN Except4(applied.exception)
        ELSE /\ Return([msg |-> "", formula |-> tree_to_string(applied.node)])
             /\ UNCHANGED exception
  /\ Untouched

NextPhase4 == ParseInput \/ GetRuleClass \/ GetFormulas \/ ApplyAndPrint

(***************************************************************************)
(* Texts of Phase4.process: at most MaxFormulaLines lines of a pool and a  *)
(* last line of a pool of rule lines, and texts without a rule line.       *)
(***************************************************************************)
MaxFormulaLines == 2

FormulaLine(number, formula) == <<number, FOUR_SPACES>> \o formula

RECURSIVE Commas(_)
Commas(pieces) ==
  IF pieces = <<>> THEN <<>> ELSE <<COMMA>> \o Head(pieces) \o Commas(Tail(pieces))

RuleText(name, numbers) == name \o Commas(numbers)

RuleNames ==
  { <<AND, "i">>, <<AND, "e", "1">>, <<AND, "e", "2">>, <<IMPLIES, "e">>, <<NOT, "e">>,
    <<NOT, NOT, "e">>, <<"M", "T">>, <<NOT, NOT, "i">>, <<"X">>, <<>> }

PoolFormulaLines ==
  { FormulaLine("2", <<"p">>), FormulaLine("2", <<"q">>),
    FormulaLine("1", <<"p", AND, "q">>), FormulaLine("1", <<"p", IMPLIES, "q">>),
    FormulaLine("2", <<NOT, "q">>), <<>> }

PoolRuleLines ==
  { RuleText(name, numbers) :
      name \in RuleNames,
      numbers \in { <<>>, <<<<"1">>>>, <<<<"1">>, <<"2">>>>, <<<<"2">>, <<"1">>>>,
                    <<<<"1">>, <<"3">>>> } }

PoolMalformedLines ==
  { FormulaLine("1", <<"p">>), FormulaLine("2", <<"q">>),
    <<"1", "p">>,
    FormulaLine("1", <<"p", FOUR_SPACES, "q">>),
    FormulaLine("p", <<"q">>),
    FormulaLine("1", <<"p", AND>>),
    FormulaLine("1", <<NOT, NOT, "p">>),
    FormulaLine("2", <<"p", "q">>),
    RuleText(<<AND, "e", "1">>, <<<<"1">>>>) }

PoolMalformedRuleLines ==
  { RuleText(name, numbers) :
      name \in {<<AND, "i">>, <<AND, "e", "1">>},
      numbers \in { <<<<"1">>>>, <<<<"1">>, <<"2">>>>, <<<<"x">>>>, <<<<"1">>, <<>>>>,
                    <<<<SPACE, "1">>, <<SPACE, "2", SPACE>>>> } }
  \cup {<<AND, "i", SPACE, "1">>, <<SPACE, AND, "e", "1", SPACE, COMMA, "1">>}

LinesOver(pool) == UNION {[1..n -> pool] : n \in 0..MaxFormulaLines}

TextsPhase4 ==
  {ls \o <<r>> : ls \in LinesOver(PoolFormulaLines), r \in PoolRuleLines}
  \cup {ls \o <<r>> : ls \in LinesOver(PoolMalformedLines), r \in PoolMalformedRuleLines}
  \cup LinesOver(PoolMalformedLines)

InitPhase4 == InitFormula(TextsPhase4, "phase4")

SpecPhase4 == InitPhase4 /\ [][NextPhase4]_vars

(***************************************************************************)
(* C31  Phase4.process returns exactly "Rule Cannot Be Applied", and never *)
(* raises, for every failing input: an unknown rule name, a wrong number   *)
(* of referenced lines for the rule, a reference to a line number that is  *)
(* not present, an unmet rule precondition, malformed line text, or empty  *)
(* input.                                                                  *)
(***************************************************************************)
EmptyInput(text) == \A i \in 1..Len(text) : strip(text[i]) = <<>>

\* a line before the last that is not "number, four spaces, formula" with a
\* formula that parse_tree reads, or a last line with a reference that is
\* not a number
MalformedText(text) == parse_input(text).exception /= ""

RuleOf(text) == logic_rule_map(parse_input(text).rule_name)

UnknownRuleName(text) == ~MalformedText(text) /\ RuleOf(text) = ""

NumbersOf(text) == parse_input(text).line_numbers

\* the number of lines the rule is stated for
LinesOfRule(name) == IF name \in {"&i", ">e", "~e", "MT"} THEN 2 ELSE 1

WrongNumberOfLines(text) ==
  /\ ~MalformedText(text) /\ RuleOf(text) /= ""
  /\ Len(NumbersOf(text)) /= LinesOfRule(RuleOf(text))

LineNotPresent(text) ==
  /\ ~MalformedText(text) /\ RuleOf(text) /= ""
  /\ \E i \in 1..Len(NumbersOf(text)) :
       \A j \in 1..Len(parse_input(text).logic_lines) :
         parse_input(text).logic_lines[j].line_number /= NumbersOf(text)[i]

\* the statement of the rule fits the formulas f (negations as parse_tree
\* builds them)
Precondition(name, f) ==
  CASE name \in {"&e1", "&e2"} -> f[1].value = AND
    [] name = ">e" -> f[1].value = IMPLIES /\ f[1].left = f[2]
    [] name = "~e" -> \/ f[1].value = NOT /\ f[1].right = f[2]
                      \/ f[2].value = NOT /\ f[2].right = f[1]
    [] name = "~~e" -> f[1].value = NOT /\ f[1].right.value = NOT
    [] name = "MT" -> f[1].value = IMPLIES /\ f[2].value = NOT /\ f[2].right = f[1].right
    [] OTHER -> TRUE

UnmetPrecondition(text) ==
  /\ ~MalformedText(text) /\ RuleOf(text) /= ""
  /\ ~WrongNumberOfLines(text) /\ ~LineNotPresent(text)
  /\ ~Precondition(RuleOf(text),
                   get_formulas_for_lines(parse_input(text).logic_lines,
                                          NumbersOf(text)).formulas)

FailingInput(text) ==
  \/ EmptyInput(text) \/ MalformedText(text) \/ UnknownRuleName(text)
  \/ WrongNumberOfLines(text) \/ LineNotPresent(text) \/ UnmetPrecondition(text)

C31_FailingInputsRejected ==
  pc = "done" =>
    /\ result.msg /= UNCAUGHT
    /\ FailingInput(input_data) =>
         result = [msg |-> RULE_CANNOT_BE_APPLIED, formula |-> <<>>]

\* a line whose formula parse_tree cannot read made it raise IndexError,
\* which is none of the exceptions the except clause names first
C31_Witness ==
  /\ pc = "done"
  /\ MalformedText(input_data)
  /\ exception = "IndexError"
  /\ result.msg = RULE_CANNOT_BE_APPLIED

(***************************************************************************)
(* C35  At every point of the pass the scope stack holds at least the base *)
(* level, its depth is 1 + (BeginScope markers processed) - (EndScope      *)
(* markers processed), and current_scope_level is the depth - 1; an        *)
(* EndScope that would pop the base level changes nothing and ends the     *)
(* pass.                                                                   *)
(***************************************************************************)
AtEndScopeOfBaseLevel ==
  /\ pc = "loop" /\ pos <= Len(lines)
  /\ IsMarker(lines[pos]) /\ lines[pos].rule_name = END_SCOPE
  /\ Len(scope_stack) = 1

C35_ScopeDepth ==
  /\ [](Started => /\ Len(scope_stack) >= 1
                   /\ Len(scope_stack) = 1 + TextDepth(lines, pos)
                   /\ current_scope_level = Len(scope_stack) - 1)
  /\ [][AtEndScopeOfBaseLevel =>
          /\ pc' = "done" /\ result'.msg = UNMATCHED
          /\ UNCHANGED <<scope_stack, current_scope_level, valid_lines,
                         scope_assumptions, pos>>]_vars

\* a scope was opened and closed, and the next EndScope ended the pass
C35_Witness ==
  /\ pc = "done" /\ result.msg = UNMATCHED
  /\ Count(lines, pos, BEGIN_SCOPE) >= 1
  /\ Count(lines, pos, BEGIN_SCOPE) = Count(lines, pos, END_SCOPE)
  /\ Len(scope_stack) = 1 /\ current_scope_level = 0

(***************************************************************************)
(* C34  During the pass valid_lines never loses a member (an EndScope      *)
(* removes nothing from it), after each processed line it is the set of    *)
(* all Premise line numbers plus the numbers of all content lines          *)
(* processed so far that are not Premise lines, and every line number held *)
(* in a level of the scope stack is in valid_lines.                        *)
(***************************************************************************)
\* the numbers of the content lines passed so far that are not Premise lines
PassedNumbers ==
  {lines[i].line_number : i \in {j \in Passed : IsContent(lines[j]) /\ ~IsPremiseLine(lines[j])}}

PremiseNumbers == {lines[i].line_number : i \in {j \in 1..Len(lines) : IsPremiseLine(lines[j])}}

\* the numbers of the Premise lines whose number no later line that is not a
\* Premise carries
KeptPremiseNumbers ==
  {lines[i].line_number : i \in {j \in 1..Len(lines) : IsPremiseLine(lines[j]) /\ NumberKept(j)}}

NeverLoses == (pc = "loop" /\ pc' \in {"loop", "done"}) => valid_lines \subseteq valid_lines'

StackWithinValid == \A level \in 1..Len(scope_stack) : scope_stack[level] \subseteq valid_lines

DischargeRules == {">i", "~i", "PBC"}

\* position in the text of the line that line_map keeps for the number n
LinePos(n) ==
  CHOOSE i \in 1..Len(lines) :
    /\ IsContent(lines[i]) /\ lines[i].line_number = n
    /\ \A j \in (i + 1)..Len(lines) : lines[j].line_number /= n

\* the line at position s is an Assumption that directly follows a BeginScope
OpensScope(s) ==
  /\ s > 1
  /\ IsMarker(lines[s - 1]) /\ lines[s - 1].rule_name = BEGIN_SCOPE
  /\ lines[s].rule_name = "Assumption"

\* the EndScope at position j closes the scope that the line at position s is in
ClosesScopeOf(j, s) ==
  /\ j > s
  /\ IsMarker(lines[j]) /\ lines[j].rule_name = END_SCOPE
  /\ TextDepth(lines, j) = TextDepth(lines, s)
  /\ \A i \in (s + 1)..(j - 1) : TextDepth(lines, i) >= TextDepth(lines, s)

OneSubDerivation(k) ==
  LET b == TheBlock(lines[k]) IN
    /\ b.start \in DOMAIN line_map /\ b.end \in DOMAIN line_map
    /\ LET s == LinePos(b.start)
           e == LinePos(b.end)
       IN /\ OpensScope(s)
          /\ s <= e
          /\ TextDepth(lines, e) = TextDepth(lines, s)
          /\ \E j \in (e + 1)..(k - 1) : ClosesScopeOf(j, s)

C33_DischargeOneSubDerivation ==
  \A k \in Passed :
    (IsContent(lines[k]) /\ lines[k].rule_name \in DischargeRules) =>
      /\ Len(lines[k].refs) = 1 /\ isinstance_tuple(TheBlock(lines[k]))
      /\ OneSubDerivation(k)

====
